---- MODULE Spec2Model ----
(***************************************************************************)
(* tierflow: the three-pass placement planner (src/balancer), the          *)
(* copy-verify-swap mover (src/mover) and the tier lock (src/lock.rs).     *)
(*                                                                         *)
(* Conventions.  An Option<T> is a set with at most one element: None is   *)
(* {} and Some(x) is {x}.  A tier is named by its index in the configured  *)
(* tier list, a file by the rank of its path in ascending path order, a    *)
(* strategy name by its rank in ascending lexicographic order (0 is the    *)
(* synthetic "no-match").  Condition evaluation is the relation `matches`. *)
(***************************************************************************)
EXTENDS Integers, Sequences, FiniteSets, TLC

(* ------------------------------ bounds -------------------------------- *)
\* number of scanned files
NumFiles == 3
\* file sizes are 1..MaxFileSize bytes
MaxFileSize == 2

VARIABLES
    \* ---- planner inputs (fixed during a planning run)
    tiers,               \* Seq of [priority, max_usage_percent, min_usage_percent, total, free]
    strategies,          \* Seq of [name, priority, preferred_tiers, is_required, action]
    files,               \* file -> [size, modified, tier]
    matches,             \* file -> set of indices of the strategies whose conditions match
    \* ---- PlanningState and the planner's position
    pc,                  \* "pass2" | "pass3a" | "pass3b" | "sort" | "done" | "panic"
    queue,               \* files still to place in Pass 2, in sorted order
    tier_free_space,     \* tier -> simulated free bytes
    decisions,           \* Seq of decisions
    blocked_placements,  \* Seq of BlockedPlacement
    warnings,            \* Seq of PlanWarning
    by_tier,             \* tier -> blocked placements grouped on it, still to process
    move_log,            \* the simulated moves applied so far (history)
    run,                 \* 1 for the first planning run, 2 for the repeated one
    first_plan           \* the plan returned by the first run

planVars == <<tiers, strategies, files, matches, pc, queue, tier_free_space,
              decisions, blocked_placements, warnings, by_tier, move_log,
              run, first_plan>>

VARIABLES
    \* ---- the Mover: one move_file(source, destination) call
    mover,               \* "RsyncMover" | "DryRunMover"
    has_oracle,          \* TRUE for the build of mover.rs, which asks fuser
    filesystem,          \* "src" | "dst" | "partial" | "backup" -> Option [content, mtime]
    src_open,            \* another process has the source open
    mpc,                 \* the call's position
    source_metadata,     \* Option [len, modified]: the metadata read after the copy
    source_checksum,     \* Option hash
    result,              \* "running" | "Ok" | the kind of the error returned
    src_before,          \* the source when the call began (history)
    dst_before,          \* the destination when the call began (history)
    src_touched,         \* another process changed the source during the call (history)
    dst_deleted,         \* another process removed the destination during the call (history)
    verified,            \* Option file: the staged copy that passed every check (history)
    removal,             \* Option [dst, source_checksum]: taken when the source is removed (history)
    destination,         \* the destination's file name, the components between its dots
    backup_path,         \* Option file name: where the differing destination was renamed to
    staged_from,         \* Option file: the source when the copier exited with success (history)
    tier_root,           \* which of the source's ancestors is the root of its tier
    ancestors            \* the source's ancestors from its parent upward -> [exists, others]

moveVars == <<mover, has_oracle, filesystem, src_open, mpc, source_metadata, source_checksum,
              result, src_before, dst_before, src_touched, dst_deleted, verified,
              removal, destination, backup_path, staged_from, tier_root, ancestors>>

VARIABLES
    \* ---- the tier locks: processes calling TierLockGuard::try_lock_tiers
    lock_path,           \* tier -> Option inode: the directory entry of the lock file
    flock,               \* inode -> Option process holding the exclusive lock
    lock_info,           \* inode -> Option pid: the LockInfo written in the file
    lpc,                 \* process -> position
    tier_idx,            \* process -> index of the tier it is locking
    lock_file,           \* process -> Option inode: the file it has open
    locks,               \* process -> Seq of <<tier, inode>>: locks acquired
    owner_info,          \* process -> Option pid: what a failed call reports
    dropped              \* history: process -> a guard of the process has been dropped

lockVars == <<lock_path, flock, lock_info, lpc, tier_idx, lock_file,
              locks, owner_info, dropped>>

VARIABLES
    \* ---- one run of run_rebalance (main.rs)
    rpc,                 \* position of the run in run_rebalance
    lock_guard,          \* "none", "held" or "dropped": the binding _lock_guard
    plan,                \* Seq of decision kinds: what plan_rebalance returned
    next_decision,       \* index of the decision execute_plan handles next
    run_log,             \* history: the steps that read or write tier files
    dry_run,             \* the --dry-run flag: build_mover returns the DryRunMover
    exec_result,         \* the ExecutionResult execute_plan is building
    tier_dirs,           \* tier -> the directory of the nested files exists on it
    file_at              \* file -> the tier whose tree holds it

runVars == <<rpc, lock_guard, plan, next_decision, run_log, dry_run, exec_result,
             tier_dirs, file_at>>

VARIABLES
    \* ---- the scan of the tiers under the locks
    spc,                 \* position: "idle" | "try_lock_tiers" | "scan" | "plan" | "drop" | "done"
    tier_entries,        \* tier -> the names of the regular files in the tier's tree
    scanned,             \* tier -> the names get_all_files returned
    decided,             \* tier -> the names of the files the plan's decisions are about
    \* ---- the daemon: run_daemon (main.rs)
    dpc,                 \* position of the daemon
    running,             \* the AtomicBool the Ctrl-C handler clears
    run_number,          \* the number of the current iteration
    handler,             \* the Ctrl-C handler is installed
    failures             \* history: the iterations whose run_rebalance returned Err

scanVars == <<spc, tier_entries, scanned, decided>>
daemonVars == <<dpc, running, run_number, handler, failures>>
hostVars == <<scanVars, daemonVars>>

vars == <<planVars, moveVars, lockVars, runVars, hostVars>>

(* ------------------------------ helpers ------------------------------- *)
None == {}
Some(x) == {x}

Min(S) == CHOOSE x \in S : \A y \in S : x <= y
Max(S) == CHOOSE x \in S : \A y \in S : x >= y

RECURSIVE SumSeq(_)
SumSeq(s) == IF s = <<>> THEN 0 ELSE Head(s) + SumSeq(Tail(s))

\* Stable sort of s under the strict weak order Less (Rust's sort_by and
\* sort_by_key are stable): elements that Less does not separate keep their
\* relative order.
SortBy(s, Less(_, _)) ==
    LET n == Len(s)
        Before(i, j) == Less(s[i], s[j]) \/ (~Less(s[j], s[i]) /\ i < j)
        rank(i) == Cardinality({j \in 1..n : Before(j, i)})
    IN [k \in 1..n |-> s[CHOOSE i \in 1..n : rank(i) = k - 1]]

\* the indices of s that satisfy Test, ascending, as a sequence
SelectIdx(s, Test(_)) ==
    LET idx == {i \in 1..Len(s) : Test(i)}
    IN SortBy([k \in 1..Cardinality(idx) |->
                 CHOOSE i \in idx : Cardinality({j \in idx : j < i}) = k - 1],
              LAMBDA a, b : a < b)

Reverse(s) == [k \in 1..Len(s) |-> s[Len(s) + 1 - k]]

(* ============================ the planner ============================== *)
Tiers == 1..Len(tiers)
Files == DOMAIN files

\* strategy name and priority of a file no strategy matches
NoMatchName == 0
NoMatchPriority == 0
\* PlacementDecision::sort_priority adds this to a Demote's strategy priority
DemoteBase == 1000

\* The pairs <<used, total>>, total up to 201 bytes, whose f64 product
\* `used as f64 / total as f64 * 100.0` falls just below the exact integer
\* quotient (29.0 / 100.0 * 100.0 is 28.999999999999996); for every other
\* pair of that range the product truncates to the exact quotient's floor.
RoundsBelow ==
    { <<29, 50>>, <<29, 100>>, <<57, 100>>, <<58, 100>>, <<87, 150>>,
      <<58, 200>>, <<114, 200>>, <<116, 200>> }

\* `(used as f64 / total as f64 * 100.0) as u64`: the truncated percent
PercentOf(used, total) ==
    IF <<used, total>> \in RoundsBelow
    THEN ((used * 100) \div total) - 1
    ELSE (used * 100) \div total

\* u64::saturating_sub
saturating_sub(a, b) == IF a >= b THEN a - b ELSE 0

\* Tier::usage_percent, on the live capacity reading
usage_percent(tier) ==
    IF tier.total = 0 THEN 0 ELSE PercentOf(tier.total - tier.free, tier.total)

\* a tier that lets files go whatever its usage
can_always_demote(tier) == TRUE

\* Tier::can_demote
can_demote(tier) ==
    \A min \in tier.min_usage_percent : usage_percent(tier) >= min

\* `total - after_free` in can_accept_file underflows when after_free > total:
\* a panic in a build with overflow checks, a wrapped (huge) value otherwise.
SubOverflows(tier, file_size, simulated_free) ==
    /\ simulated_free >= file_size
    /\ tier.max_usage_percent # None
    /\ simulated_free - file_size > tier.total

\* Balancer::can_accept_file (the wrapped difference gives a percent above
\* every ceiling, so the build without overflow checks answers false)
can_accept_file(tier, file_size, simulated_free) ==
    IF simulated_free < file_size THEN FALSE
    ELSE IF tier.max_usage_percent = None THEN TRUE
    ELSE LET after_free == saturating_sub(simulated_free, file_size)
         IN IF after_free > tier.total THEN FALSE
            ELSE \A max_percent \in tier.max_usage_percent :
                    ~(PercentOf(tier.total - after_free, tier.total) > max_percent)

\* EvictionPlanner::can_accept_file
EvictionPlanner_can_accept_file(tier, file_size, simulated_free) ==
    IF simulated_free < file_size THEN FALSE
    ELSE IF tier.max_usage_percent = None THEN TRUE
    ELSE LET after_free == saturating_sub(simulated_free, file_size)
         IN IF after_free > tier.total THEN FALSE
            ELSE \A max_percent \in tier.max_usage_percent :
                    ~(PercentOf(tier.total - after_free, tier.total) > max_percent)

\* PlanningState::apply_move and EvictionPlanner::apply_move
apply_move(free, file_size, from_tier, to_tier) ==
    LET added == [free EXCEPT ![from_tier] = @ + file_size]
    IN [added EXCEPT ![to_tier] = saturating_sub(@, file_size)]

\* Balancer::sort_files_deterministically: size descending, then mtime
\* ascending, then path ascending (paths are unique, so the tier name never
\* decides)
sort_files_deterministically(fs) ==
    SortBy(fs, LAMBDA f1, f2 :
        \/ files[f1].size > files[f2].size
        \/ /\ files[f1].size = files[f2].size
           /\ \/ files[f1].modified < files[f2].modified
              \/ /\ files[f1].modified = files[f2].modified
                 /\ f1 < f2)

\* a comparator that puts the greater name below
StrategyCmpLessNameDescending(s1, s2) ==
    \/ s1.priority < s2.priority
    \/ s1.priority = s2.priority /\ s1.name > s2.name

\* the comparator of find_matching_strategy: priority, then name
StrategyCmpLess(s1, s2) ==
    \/ s1.priority < s2.priority
    \/ s1.priority = s2.priority /\ s1.name < s2.name

\* Balancer::find_matching_strategy: Iterator::max_by over the matching
\* strategies; 0 when none matches
find_matching_strategy(file) ==
    IF matches[file] = {} THEN 0
    ELSE CHOOSE i \in matches[file] :
            \A j \in matches[file] \ {i} : StrategyCmpLess(strategies[j], strategies[i])

\* Balancer::find_ideal_tier_simulated: the first preferred tier that
\* accepts the file; 0 when none does
find_ideal_tier_simulated(strategy, file_size, free) ==
    LET pref == strategy.preferred_tiers
        ok == {i \in 1..Len(pref) :
                  can_accept_file(tiers[pref[i]], file_size, free[pref[i]])}
    IN IF ok = {} THEN 0 ELSE pref[Min(ok)]

\* some can_accept_file call made by find_ideal_tier_simulated underflows
IdealOverflows(strategy, file_size, free) ==
    LET pref == strategy.preferred_tiers
    IN \E i \in 1..Len(pref) :
          /\ SubOverflows(tiers[pref[i]], file_size, free[pref[i]])
          /\ \A j \in 1..(i - 1) :
                ~can_accept_file(tiers[pref[j]], file_size, free[pref[j]])

Stay(file, current_tier, strategy, priority) ==
    [kind |-> "Stay", file |-> file, from_tier |-> current_tier,
     to_tier |-> current_tier, strategy |-> strategy, priority |-> priority]
Promote(file, from_tier, to_tier, strategy, priority) ==
    [kind |-> "Promote", file |-> file, from_tier |-> from_tier,
     to_tier |-> to_tier, strategy |-> strategy, priority |-> priority]
Demote(file, from_tier, to_tier, strategy, priority) ==
    [kind |-> "Demote", file |-> file, from_tier |-> from_tier,
     to_tier |-> to_tier, strategy |-> strategy, priority |-> priority]

\* PlacementDecision::sort_priority
sort_priority(d) ==
    CASE d.kind = "Stay" -> 0
      [] d.kind = "Demote" -> DemoteBase + d.priority
      [] d.kind = "Promote" -> d.priority

\* Balancer::make_decision
make_decision(file, current_tier, ideal_tier, strategy) ==
    IF current_tier = ideal_tier
    THEN Stay(file, current_tier, strategy.name, strategy.priority)
    ELSE IF tiers[ideal_tier].priority < tiers[current_tier].priority
    THEN Promote(file, current_tier, ideal_tier, strategy.name, strategy.priority)
    ELSE IF can_demote(tiers[current_tier])
    THEN Demote(file, current_tier, ideal_tier, strategy.name, strategy.priority)
    ELSE Stay(file, current_tier, strategy.name, strategy.priority)

(* ------------------------- EvictionPlanner ----------------------------- *)
\* The eviction passes work on st = [d, f, ovf, log]: the decisions, the
\* simulated free space, whether a can_accept_file call underflowed, and the
\* history of the simulated moves applied.

\* one applied simulated move, as recorded in move_log
MoveEntry(pass, file, from_tier, to_tier, free) ==
    [pass |-> pass, file |-> file, from_tier |-> from_tier, to_tier |-> to_tier,
     size |-> files[file].size, free_before |-> free[to_tier],
     from_free_before |-> free[from_tier]]

\* the tier find_fallback_tier looks at: the first tier of least priority
\* among the tiers slower than current_tier (Iterator::min_by_key); 0 if none
NextSlowerTier(current_tier) ==
    LET slower == {t \in Tiers : tiers[t].priority > tiers[current_tier].priority}
    IN IF slower = {} THEN 0
       ELSE Min({t \in slower : \A u \in slower : tiers[t].priority <= tiers[u].priority})

\* a fallback search that does not ask whether the tier can accept the file
find_fallback_tier_unchecked(current_tier, free, file_size) ==
    NextSlowerTier(current_tier)

\* EvictionPlanner::find_fallback_tier; 0 when there is none
find_fallback_tier(current_tier, free, file_size) ==
    LET t == NextSlowerTier(current_tier)
    IN IF t # 0 /\ EvictionPlanner_can_accept_file(tiers[t], file_size, free[t])
       THEN t ELSE 0

FallbackOverflows(current_tier, free, file_size) ==
    LET t == NextSlowerTier(current_tier)
    IN t # 0 /\ SubOverflows(tiers[t], file_size, free[t])

\* EvictionPlanner::find_eviction_candidates: indices of the Stay decisions
\* on tier_name, in decision order
find_eviction_candidates(tier_name, d) ==
    SelectIdx(d, LAMBDA i : d[i].kind = "Stay" /\ d[i].from_tier = tier_name)

\* EvictionPlanner::sort_eviction_candidates
sort_eviction_candidates(candidates, d) ==
    SortBy(candidates, LAMBDA i1, i2 :
        \/ d[i1].priority < d[i2].priority
        \/ /\ d[i1].priority = d[i2].priority
           /\ \/ files[d[i1].file].modified < files[d[i2].file].modified
              \/ /\ files[d[i1].file].modified = files[d[i2].file].modified
                 /\ files[d[i1].file].size > files[d[i2].file].size)

\* EvictionPlanner::calculate_needed_space
calculate_needed_space(blocked_list) ==
    SumSeq([k \in 1..Len(blocked_list) |-> files[blocked_list[k].file].size])

RECURSIVE SelectLoop(_, _, _, _, _)
SelectLoop(candidates, freed_space, needed_space, max_blocked_priority, d) ==
    IF candidates = <<>> \/ freed_space >= needed_space THEN <<>>
    ELSE LET idx == Head(candidates)
         IN IF d[idx].priority < max_blocked_priority
            THEN <<idx>> \o SelectLoop(Tail(candidates),
                                       freed_space + files[d[idx].file].size,
                                       needed_space, max_blocked_priority, d)
            ELSE SelectLoop(Tail(candidates), freed_space, needed_space,
                            max_blocked_priority, d)

\* a selection that takes candidates of any priority
select_files_of_any_priority(candidates, needed_space, blocked_list, d) ==
    LET above_all == 1 + Max({0} \cup {d[k].priority : k \in 1..Len(d)})
    IN SelectLoop(candidates, 0, needed_space, above_all, d)

\* EvictionPlanner::select_files_to_evict
select_files_to_evict(candidates, needed_space, blocked_list, d) ==
    LET max_blocked_priority ==
            IF blocked_list = <<>> THEN 0
            ELSE Max({blocked_list[k].strategy_priority : k \in 1..Len(blocked_list)})
    IN SelectLoop(candidates, 0, needed_space, max_blocked_priority, d)

\* an eviction that adds a decision for the file and keeps the old one
EvictOne_append(pass, idx, st) ==
    LET dec == st.d[idx]
        size == files[dec.file].size
        fallback_tier == find_fallback_tier(dec.from_tier, st.f, size)
    IN IF dec.kind = "Stay" /\ fallback_tier # 0
       THEN [d |-> Append(st.d, Demote(dec.file, dec.from_tier, fallback_tier,
                                       dec.strategy, dec.priority)),
             f |-> apply_move(st.f, size, dec.from_tier, fallback_tier),
             ovf |-> st.ovf,
             log |-> Append(st.log, MoveEntry(pass, dec.file, dec.from_tier,
                                              fallback_tier, st.f))]
       ELSE st

\* the body shared by apply_evictions and evict_to_target_usage: turn the
\* Stay at idx into a Demote to its fallback tier, if it has one
EvictOne(pass, idx, st) ==
    LET dec == st.d[idx]
        size == files[dec.file].size
        fallback_tier == find_fallback_tier(dec.from_tier, st.f, size)
        ovf == st.ovf \/ (dec.kind = "Stay" /\ FallbackOverflows(dec.from_tier, st.f, size))
    IN IF dec.kind = "Stay" /\ fallback_tier # 0
       THEN [d |-> [st.d EXCEPT ![idx] = Demote(dec.file, dec.from_tier, fallback_tier,
                                                 dec.strategy, dec.priority)],
             f |-> apply_move(st.f, size, dec.from_tier, fallback_tier),
             ovf |-> ovf,
             log |-> Append(st.log, MoveEntry(pass, dec.file, dec.from_tier,
                                              fallback_tier, st.f))]
       ELSE [st EXCEPT !.ovf = ovf]

\* EvictionPlanner::apply_evictions (the caller passes to_evict reversed)
RECURSIVE apply_evictions(_, _)
apply_evictions(to_evict_rev, st) ==
    IF to_evict_rev = <<>> THEN st
    ELSE apply_evictions(Tail(to_evict_rev), EvictOne("evict", Head(to_evict_rev), st))

\* EvictionPlanner::replan_blocked_files
RECURSIVE replan_blocked_files(_, _)
replan_blocked_files(blocked_list, st) ==
    IF blocked_list = <<>> THEN st
    ELSE LET blocked == Head(blocked_list)
             size == files[blocked.file].size
             target_tier == blocked.desired_tier
             current_tier == blocked.current_tier
             ovf == st.ovf \/ SubOverflows(tiers[target_tier], size, st.f[target_tier])
             found == {i \in 1..Len(st.d) : st.d[i].file = blocked.file}
         IN IF /\ EvictionPlanner_can_accept_file(tiers[target_tier], size, st.f[target_tier])
               /\ found # {}
            THEN LET decision_idx == Min(found)
                     decision ==
                        IF tiers[target_tier].priority < tiers[current_tier].priority
                        THEN Promote(blocked.file, current_tier, target_tier,
                                     blocked.strategy_name, blocked.strategy_priority)
                        ELSE Demote(blocked.file, current_tier, target_tier,
                                    blocked.strategy_name, blocked.strategy_priority)
                 IN replan_blocked_files(Tail(blocked_list),
                       [d |-> [st.d EXCEPT ![decision_idx] = decision],
                        f |-> apply_move(st.f, size, current_tier, target_tier),
                        ovf |-> ovf,
                        log |-> Append(st.log, MoveEntry("replan", blocked.file,
                                                         current_tier, target_tier, st.f))])
            ELSE replan_blocked_files(Tail(blocked_list), [st EXCEPT !.ovf = ovf])

\* EvictionPlanner::evict_from_tier
evict_from_tier(tier_name, blocked_list_in, st) ==
    LET blocked_list == SortBy(blocked_list_in,
                               LAMBDA a, b : a.strategy_priority > b.strategy_priority)
        candidates == find_eviction_candidates(tier_name, st.d)
        needed_space == calculate_needed_space(blocked_list)
        to_evict == select_files_to_evict(candidates, needed_space, blocked_list, st.d)
    IN replan_blocked_files(blocked_list, apply_evictions(Reverse(to_evict), st))

\* the loop of evict_to_target_usage over the sorted candidates
RECURSIVE TargetLoop(_, _, _, _)
TargetLoop(candidates, tier_name, target_used, st) ==
    IF candidates = <<>> THEN st
    ELSE LET total == tiers[tier_name].total
             current_used == saturating_sub(total, st.f[tier_name])
         IN IF current_used <= target_used THEN st
            ELSE TargetLoop(Tail(candidates), tier_name, target_used,
                            EvictOne("excess", Head(candidates), st))

\* EvictionPlanner::evict_to_target_usage
evict_to_target_usage(tier_name, target_percent, st) ==
    LET total == tiers[tier_name].total
        target_used == (total * target_percent) \div 100
        candidates == sort_eviction_candidates(
                          find_eviction_candidates(tier_name, st.d), st.d)
    IN TargetLoop(candidates, tier_name, target_used, st)

\* EvictionPlanner::evict_excess_usage, from tier number t on
RECURSIVE evict_excess_usage(_, _)
evict_excess_usage(t, st) ==
    IF t > Len(tiers) THEN st
    ELSE LET tier == tiers[t]
             simulated_used == saturating_sub(tier.total, st.f[t])
             simulated_percent ==
                 IF tier.total > 0 THEN PercentOf(simulated_used, tier.total) ELSE 0
         IN IF \E max_percent \in tier.max_usage_percent : simulated_percent > max_percent
            THEN evict_excess_usage(t + 1,
                    evict_to_target_usage(t, Max(tier.max_usage_percent), st))
            ELSE evict_excess_usage(t + 1, st)

(* --------------------------- planner inputs ---------------------------- *)
\* capacity of the two fast tiers, in bytes
TierTotal == 4

Tier(priority, max_usage_percent, min_usage_percent, total, free) ==
    [priority |-> priority, max_usage_percent |-> max_usage_percent,
     min_usage_percent |-> min_usage_percent, total |-> total, free |-> free]

\* Three tiers: two small fast ones, nearly full, and a large slow one.
ThreeTiers(max1, min1, max2, free1, free2, p3) ==
    << Tier(1, max1, min1, TierTotal, free1),
       Tier(2, max2, None, TierTotal, free2),
       Tier(p3, None, None, 3 * TierTotal, TierTotal + 2) >>

\* no usage limits; the configuration does not require priorities to differ
UnlimitedTierConfigs ==
    { ThreeTiers(None, None, None, free1, free2, p3) :
        free1 \in 0..1, free2 \in 0..1, p3 \in 2..3 }

\* max_usage_percent on both fast tiers
CeilingTierConfigs ==
    { ThreeTiers(Some(75), None, Some(75), free1, free2, 3) :
        free1 \in 0..1, free2 \in 0..1 }

\* min_usage_percent on the fastest tier
FloorTierConfigs ==
    { ThreeTiers(None, Some(90), None, free1, 1, 3) : free1 \in 0..1 }

TierConfigs == UnlimitedTierConfigs \cup CeilingTierConfigs \cup FloorTierConfigs

Strategy(name, priority, preferred_tiers, is_required, action) ==
    [name |-> name, priority |-> priority, preferred_tiers |-> preferred_tiers,
     is_required |-> is_required, action |-> action]

StrategyConfigs ==
    { << Strategy(2, 2, <<1>>, TRUE, "Evaluate"),
         Strategy(1, 1, <<2>>, FALSE, "Evaluate"),
         Strategy(3, 1, <<3>>, FALSE, "Evaluate") >>,
      << Strategy(2, 2, <<1, 2>>, FALSE, "Evaluate"),
         Strategy(1, 2, <<2, 3>>, TRUE, "Evaluate"),
         Strategy(3, 1, <<3>>, FALSE, "Stay") >> }

\* Bound: a strategy priority above the base added to a Demote
WidePriority == 1002

\* strategy priorities are any u32: one strategy far above the others
WideStrategyConfigs ==
    { << Strategy(2, WidePriority, <<1>>, TRUE, "Evaluate"),
         Strategy(1, 1, <<2>>, FALSE, "Evaluate"),
         Strategy(3, 1, <<3>>, FALSE, "Evaluate") >> }

\* two strategies of equal priority and a third below them, listed in
\* three different orders
TiedStrategyConfigs ==
    LET a == Strategy(1, 2, <<2, 3>>, TRUE, "Evaluate")
        b == Strategy(2, 2, <<1, 2>>, FALSE, "Evaluate")
        c == Strategy(3, 1, <<3>>, FALSE, "Evaluate")
    IN { <<a, b, c>>, <<b, a, c>>, <<c, b, a>> }

\* the conditions of any number of strategies hold for a file
MultiMatchChoices == SUBSET {1, 2, 3}

\* which strategies' conditions a file satisfies
MatchChoices == { {}, {1}, {2}, {3} }

\* mtime of the file with the n-th path: neighbours in path order differ
ModifiedOf(n) == 1 + (n % 2)

FileKey(fr, m) == (fr.tier * 10 + (IF m = {} THEN 0 ELSE Max(m))) * 10 + fr.size

\* the files on a tier never take more than the tier's used bytes
FitsCapacityOn(measured, ts, fa) ==
    \A t \in measured :
        LET on == {f \in DOMAIN fa : fa[f].tier = t}
            sizes == [f \in DOMAIN fa |-> IF f \in on THEN fa[f].size ELSE 0]
        IN SumSeq(sizes) <= ts[t].total - ts[t].free

FitsCapacity(ts, fa) == FitsCapacityOn(1..Len(ts), ts, fa)

NoPlan == [decisions |-> <<>>, warnings |-> <<>>, projected_tier_usage |-> <<>>]

\* no move_file call is in progress
IdleMove ==
    /\ mover = "RsyncMover" /\ has_oracle = FALSE
    /\ filesystem = [n \in {"src", "dst", "partial", "backup"} |-> None]
    /\ src_open = FALSE /\ mpc = "idle"
    /\ source_metadata = None /\ source_checksum = None /\ result = "running"
    /\ src_before = None /\ dst_before = None
    /\ src_touched = FALSE /\ dst_deleted = FALSE
    /\ verified = None /\ removal = None
    /\ destination = <<"episode", "mkv">> /\ backup_path = None /\ staged_from = None
    /\ tier_root = 1 /\ ancestors = <<[exists |-> TRUE, others |-> TRUE]>>

\* no process is locking
IdleLock ==
    /\ lock_path = <<>> /\ flock = <<>> /\ lock_info = <<>>
    /\ lpc = <<>> /\ tier_idx = <<>> /\ lock_file = <<>> /\ locks = <<>>
    /\ owner_info = <<>> /\ dropped = <<>>

\* run_rebalance is not running
NoResult == [files_moved |-> 0, bytes_moved |-> 0, files_stayed |-> 0, errors |-> <<>>]

\* no scan and no daemon
IdleHost ==
    /\ spc = "idle" /\ tier_entries = <<>> /\ scanned = <<>> /\ decided = <<>>
    /\ dpc = "idle" /\ running = TRUE /\ run_number = 0 /\ handler = FALSE
    /\ failures = 0

RunNotStarted ==
    /\ rpc = "idle" /\ lock_guard = "none" /\ plan = <<>>
    /\ next_decision = 0 /\ run_log = <<>>
    /\ dry_run = FALSE /\ exec_result = NoResult
    /\ tier_dirs = <<>> /\ file_at = <<>>

IdleRun == IdleHost /\ RunNotStarted

\* no planning run is in progress
IdlePlan ==
    /\ tiers = <<>> /\ strategies = <<>> /\ files = <<>> /\ matches = <<>>
    /\ pc = "idle" /\ queue = <<>> /\ tier_free_space = <<>> /\ decisions = <<>>
    /\ blocked_placements = <<>> /\ warnings = <<>> /\ by_tier = <<>>
    /\ move_log = <<>> /\ run = 0 /\ first_plan = NoPlan

\* PlanningState::new and the sorted file list
InitPlanOver(tier_configs, strategy_configs, match_choices, measured) ==
    /\ tiers \in tier_configs
    /\ strategies \in strategy_configs
    /\ files \in [1..NumFiles -> [size : 1..MaxFileSize, tier : 1..3, modified : 1..2]]
    /\ matches \in [1..NumFiles -> match_choices]
    /\ \A f \in 1..NumFiles : files[f].modified = ModifiedOf(f)
    /\ \A f \in 1..(NumFiles - 1) :
          FileKey(files[f], matches[f]) <= FileKey(files[f + 1], matches[f + 1])
    /\ FitsCapacityOn(measured, tiers, files)
    /\ pc = "pass2"
    /\ queue = sort_files_deterministically([k \in 1..NumFiles |-> k])
    /\ tier_free_space = [t \in 1..Len(tiers) |-> tiers[t].free]
    /\ decisions = <<>>
    /\ blocked_placements = <<>>
    /\ warnings = <<>>
    /\ by_tier = [t \in 1..Len(tiers) |-> <<>>]
    /\ move_log = <<>>
    /\ run = 1
    /\ first_plan = NoPlan

\* the planner over tiers whose free and total space statvfs reported
InitPlanWith(tier_configs, strategy_configs, match_choices) ==
    InitPlanOver(tier_configs, strategy_configs, match_choices, 1..3)

InitPlan == InitPlanWith(TierConfigs, StrategyConfigs, MatchChoices)

(* --------------------------- planner actions --------------------------- *)
inputVars == <<tiers, strategies, files, matches>>

\* a step whose can_accept_file underflowed panics in a build with overflow
\* checks and goes on with the wrapped value in a build without
Outcomes(ovf) == IF ovf THEN {"panic", "wrapped"} ELSE {"ok"}

BlockedPlacement(file, current_tier, desired_tier, strategy_name, strategy_priority) ==
    [file |-> file, current_tier |-> current_tier, desired_tier |-> desired_tier,
     strategy_name |-> strategy_name, strategy_priority |-> strategy_priority]

RequiredStrategyFailed(strategy, file) ==
    [warning |-> "RequiredStrategyFailed", strategy |-> strategy, file |-> file]

\* Balancer::plan_file_placement, for the next file of the Pass 2 loop
PlanFilePlacement ==
    /\ pc = "pass2"
    /\ queue # <<>>
    /\ LET file == Head(queue)
           size == files[file].size
           current_tier == files[file].tier
           si == find_matching_strategy(file)
       IN IF si = 0
          THEN /\ decisions' = Append(decisions,
                                  Stay(file, current_tier, NoMatchName, NoMatchPriority))
               /\ UNCHANGED <<pc, tier_free_space, blocked_placements, warnings, move_log>>
          ELSE LET strategy == strategies[si]
                   ideal_tier == find_ideal_tier_simulated(strategy, size, tier_free_space)
                   decision == make_decision(file, current_tier, ideal_tier, strategy)
                   first_preferred == strategy.preferred_tiers[1]
               IN IF strategy.action = "Stay"
                  THEN /\ decisions' = Append(decisions,
                                  Stay(file, current_tier, strategy.name, strategy.priority))
                       /\ UNCHANGED <<pc, tier_free_space, blocked_placements,
                                      warnings, move_log>>
                  ELSE \E outcome \in Outcomes(IdealOverflows(strategy, size, tier_free_space)) :
                       IF outcome = "panic"
                       THEN /\ pc' = "panic"
                            /\ UNCHANGED <<decisions, tier_free_space, blocked_placements,
                                           warnings, move_log>>
                       ELSE IF ideal_tier # 0
                       THEN /\ decisions' = Append(decisions, decision)
                            /\ IF decision.kind # "Stay"
                               THEN /\ tier_free_space' =
                                        apply_move(tier_free_space, size, current_tier, ideal_tier)
                                    /\ move_log' = Append(move_log,
                                          MoveEntry("pass2", file, current_tier, ideal_tier,
                                                    tier_free_space))
                               ELSE UNCHANGED <<tier_free_space, move_log>>
                            /\ UNCHANGED <<pc, blocked_placements, warnings>>
                       ELSE /\ blocked_placements' =
                                IF strategy.preferred_tiers # <<>> /\ first_preferred # current_tier
                                THEN Append(blocked_placements,
                                        BlockedPlacement(file, current_tier, first_preferred,
                                                         strategy.name, strategy.priority))
                                ELSE blocked_placements
                            /\ decisions' = Append(decisions,
                                  Stay(file, current_tier, strategy.name, strategy.priority))
                            /\ warnings' =
                                IF strategy.is_required
                                THEN Append(warnings, RequiredStrategyFailed(strategy.name, file))
                                ELSE warnings
                            /\ UNCHANGED <<pc, tier_free_space, move_log>>
    /\ queue' = Tail(queue)
    /\ UNCHANGED <<moveVars, lockVars, runVars, hostVars, inputVars, by_tier, run, first_plan>>

\* EvictionPlanner::group_by_tier
group_by_tier(blocked) ==
    [t \in Tiers |->
        LET idx == SelectIdx(blocked, LAMBDA i : blocked[i].desired_tier = t)
        IN [k \in 1..Len(idx) |-> blocked[idx[k]]]]

\* plan_rebalance after the Pass 2 loop: take the blocked placements and
\* enter evict_to_make_space, or go straight to Pass 3b when there are none
BeginEviction ==
    /\ pc = "pass2"
    /\ queue = <<>>
    /\ IF blocked_placements # <<>>
       THEN /\ by_tier' = group_by_tier(blocked_placements)
            /\ blocked_placements' = <<>>
            /\ pc' = "pass3a"
       ELSE /\ pc' = "pass3b"
            /\ UNCHANGED <<by_tier, blocked_placements>>
    /\ UNCHANGED <<moveVars, lockVars, runVars, hostVars, inputVars, queue, tier_free_space, decisions, warnings, move_log,
                   run, first_plan>>

\* One iteration of the loop of evict_to_make_space over by_tier.  by_tier is
\* a HashMap with a per-instance random hasher: its iteration order is any
\* order of its keys.
EvictFromTier ==
    /\ pc = "pass3a"
    /\ \E tier_name \in {t \in Tiers : by_tier[t] # <<>>} :
          LET st == evict_from_tier(tier_name, by_tier[tier_name],
                       [d |-> decisions, f |-> tier_free_space, ovf |-> FALSE,
                        log |-> move_log])
              rest == [by_tier EXCEPT ![tier_name] = <<>>]
          IN \E outcome \in Outcomes(st.ovf) :
                IF outcome = "panic"
                THEN /\ pc' = "panic"
                     /\ UNCHANGED <<decisions, tier_free_space, move_log, by_tier>>
                ELSE /\ decisions' = st.d
                     /\ tier_free_space' = st.f
                     /\ move_log' = st.log
                     /\ by_tier' = rest
                     /\ pc' = IF \E t \in Tiers : rest[t] # <<>> THEN "pass3a" ELSE "pass3b"
    /\ UNCHANGED <<moveVars, lockVars, runVars, hostVars, inputVars, queue, blocked_placements, warnings, run, first_plan>>

\* EvictionPlanner::evict_excess_usage (Pass 3b)
EvictExcessUsage ==
    /\ pc = "pass3b"
    /\ LET st == evict_excess_usage(1,
                    [d |-> decisions, f |-> tier_free_space, ovf |-> FALSE,
                     log |-> move_log])
       IN \E outcome \in Outcomes(st.ovf) :
             IF outcome = "panic"
             THEN /\ pc' = "panic"
                  /\ UNCHANGED <<decisions, tier_free_space, move_log>>
             ELSE /\ decisions' = st.d
                  /\ tier_free_space' = st.f
                  /\ move_log' = st.log
                  /\ pc' = "sort"
    /\ UNCHANGED <<moveVars, lockVars, runVars, hostVars, inputVars, queue, blocked_placements, warnings, by_tier, run, first_plan>>

\* the final sort of plan_rebalance: sort_priority descending, then path
SortDecisions ==
    /\ pc = "sort"
    /\ decisions' = SortBy(decisions, LAMBDA d1, d2 :
            \/ sort_priority(d1) > sort_priority(d2)
            \/ sort_priority(d1) = sort_priority(d2) /\ d1.file < d2.file)
    /\ pc' = "done"
    /\ UNCHANGED <<moveVars, lockVars, runVars, hostVars, inputVars, queue, tier_free_space, blocked_placements, warnings,
                   by_tier, move_log, run, first_plan>>

\* Balancer::calculate_projected_usage
calculate_projected_usage ==
    [t \in Tiers |->
        LET current_free == tiers[t].free
            current_total == tiers[t].total
            projected_free == tier_free_space[t]
            projected_used == saturating_sub(current_total, projected_free)
        IN [current_used |-> saturating_sub(current_total, current_free),
            current_free |-> current_free,
            projected_used |-> projected_used,
            projected_free |-> projected_free,
            current_percent |-> usage_percent(tiers[t]),
            projected_percent |-> IF current_total > 0
                                  THEN PercentOf(projected_used, current_total) ELSE 0]]

\* the BalancingPlan plan_rebalance returns
BalancingPlan ==
    [decisions |-> decisions, warnings |-> warnings,
     projected_tier_usage |-> calculate_projected_usage]

\* a second plan_rebalance over the same tiers, strategies, files, capacity
\* readings and instant
Rerun ==
    /\ pc = "done"
    /\ run = 1
    /\ run' = 2
    /\ first_plan' = BalancingPlan
    /\ pc' = "pass2"
    /\ queue' = sort_files_deterministically([k \in 1..NumFiles |-> k])
    /\ tier_free_space' = [t \in Tiers |-> tiers[t].free]
    /\ decisions' = <<>>
    /\ blocked_placements' = <<>>
    /\ warnings' = <<>>
    /\ by_tier' = [t \in Tiers |-> <<>>]
    /\ move_log' = <<>>
    /\ UNCHANGED <<moveVars, lockVars, runVars, hostVars, inputVars>>

NextPlan ==
    \/ PlanFilePlacement
    \/ BeginEviction
    \/ EvictFromTier
    \/ EvictExcessUsage
    \/ SortDecisions

Init == InitPlan /\ IdleMove /\ IdleLock /\ IdleRun
Next == NextPlan
Spec == Init /\ [][Next]_vars

\* Bound: capacity in bytes of a fast tier large enough for one byte to be
\* less than one percent of it
AcceptTotal == 200

\* a ceiling of half the tier on a fastest tier that is about half full
AcceptTierConfigs ==
    { [ThreeTiers(None, None, None, 0, free2, 3) EXCEPT
          ![1] = Tier(1, Some(50), None, AcceptTotal, free1)] :
        free1 \in ((AcceptTotal \div 2) - 1)..((AcceptTotal \div 2) + 2),
        free2 \in 0..1 }

\* the planner over a tier whose usage is near its max_usage_percent
InitAccept ==
    InitPlanWith(AcceptTierConfigs, StrategyConfigs, MatchChoices) /\ IdleMove /\ IdleLock /\ IdleRun
SpecAccept == InitAccept /\ [][Next]_vars

\* the planner over strategies whose priorities are far apart
InitWidePriorities ==
    InitPlanWith(TierConfigs, WideStrategyConfigs, MatchChoices) /\ IdleMove /\ IdleLock /\ IdleRun
SpecWidePriorities == InitWidePriorities /\ [][Next]_vars

(* ---- a promotion into a full cache: file A on the cache, file B below ---- *)
\* Bound: the sizes of the cache and of the storage tier, in units of 100 bytes
CacheTotal == 10
StorageTotal == 100

FileA == 1
FileB == 2
Cache == 1
Storage == 2

\* cache{priority 1, max_usage_percent} and storage{priority 10}; the
\* strategy "hot" (priority 90) and the strategy "keep-warm" (priority 10)
\* both prefer the cache; A is on the cache under "keep-warm", B is on the
\* storage tier under "hot", A is at least as large as B, and the cache
\* does not accept B as it is
InitBlockedPromotion ==
    /\ \E max \in {None, Some(80)} : \E free \in 0..(CacheTotal \div 2) :
          tiers = << Tier(1, max, None, CacheTotal, free),
                     Tier(10, None, None, StorageTotal, StorageTotal) >>
    /\ \E required \in BOOLEAN :
          strategies = << Strategy(1, 90, <<Cache>>, required, "Evaluate"),
                          Strategy(2, 10, <<Cache>>, FALSE, "Evaluate") >>
    /\ \E sizeA \in 4..5 : \E sizeB \in 3..5 : \E m \in 1..2 :
          /\ sizeA >= sizeB
          /\ files = << [size |-> sizeA, tier |-> Cache, modified |-> m],
                        [size |-> sizeB, tier |-> Storage, modified |-> 1] >>
    /\ matches = << {2}, {1} >>
    /\ files[FileA].size <= tiers[Cache].total - tiers[Cache].free
    /\ ~can_accept_file(tiers[Cache], files[FileB].size, tiers[Cache].free)
    /\ pc = "pass2"
    /\ queue = sort_files_deterministically(<<FileA, FileB>>)
    /\ tier_free_space = [t \in 1..Len(tiers) |-> tiers[t].free]
    /\ decisions = <<>>
    /\ blocked_placements = <<>>
    /\ warnings = <<>>
    /\ by_tier = [t \in 1..Len(tiers) |-> <<>>]
    /\ move_log = <<>>
    /\ run = 1
    /\ first_plan = NoPlan

InitBlockedPromotionPlan == InitBlockedPromotion /\ IdleMove /\ IdleLock /\ IdleRun
SpecBlockedPromotion == InitBlockedPromotionPlan /\ [][Next]_vars

(* ---- a full cache whose occupants and suitors have several priorities ---- *)
\* three strategies of different priorities, all preferring the cache
CachePreferringStrategies ==
    << Strategy(1, 90, <<Cache>>, FALSE, "Evaluate"),
       Strategy(2, 50, <<Cache>>, FALSE, "Evaluate"),
       Strategy(3, 10, <<Cache>>, FALSE, "Evaluate") >>

\* cache{priority 1} nearly full and storage{priority 10} half empty; each
\* of the files is on one of the two tiers and matches one of the
\* strategies or none
InitEvictionPriorities ==
    /\ \E free \in 0..1 :
          tiers = << Tier(1, None, None, CacheTotal, free),
                     Tier(10, None, None, StorageTotal, StorageTotal \div 2) >>
    /\ strategies = CachePreferringStrategies
    /\ files \in [1..NumFiles -> [size : MaxFileSize..(2 * MaxFileSize),
                                  tier : {Cache, Storage}, modified : 1..2]]
    /\ matches \in [1..NumFiles -> MatchChoices]
    /\ \A f \in 1..NumFiles : files[f].modified = ModifiedOf(f)
    /\ FitsCapacity(tiers, files)
    /\ pc = "pass2"
    /\ queue = sort_files_deterministically([k \in 1..NumFiles |-> k])
    /\ tier_free_space = [t \in 1..Len(tiers) |-> tiers[t].free]
    /\ decisions = <<>>
    /\ blocked_placements = <<>>
    /\ warnings = <<>>
    /\ by_tier = [t \in 1..Len(tiers) |-> <<>>]
    /\ move_log = <<>>
    /\ run = 1
    /\ first_plan = NoPlan

InitEvictionPrioritiesPlan == InitEvictionPriorities /\ IdleMove /\ IdleLock /\ IdleRun
SpecEvictionPriorities == InitEvictionPrioritiesPlan /\ [][Next]_vars

(* ---- the plan is executed in full, then plan_rebalance runs again ---- *)
\* where the first plan puts a file
PlannedTier(f) ==
    LET ds == {i \in 1..Len(decisions) : decisions[i].file = f}
    IN IF ds = {} THEN files[f].tier ELSE decisions[CHOOSE i \in ds : TRUE].to_tier

\* the position of a file's move in the execution order; 0 when it stays
MovePosition(f) ==
    LET moved == SelectIdx(decisions, LAMBDA i : decisions[i].kind # "Stay")
        at == {k \in 1..Len(moved) : decisions[moved[k]].file = f}
    IN IF at = {} THEN 0 ELSE CHOOSE k \in at : TRUE

\* free bytes of a tier once every move of the plan has been made
FreeAfterExecution(t) ==
    LET delta == [i \in 1..Len(decisions) |->
                    LET d == decisions[i]
                    IN IF d.kind = "Stay" THEN 0
                       ELSE IF d.from_tier = t THEN files[d.file].size
                       ELSE IF d.to_tier = t THEN 0 - files[d.file].size
                       ELSE 0]
    IN tiers[t].free + SumSeq(delta)

FilePermutations == {pi \in [1..NumFiles -> 1..NumFiles] :
                    \A a, b \in 1..NumFiles : pi[a] = pi[b] => a = b}

\* pi lists the files in the order of their paths after the moves: the
\* tier's path first, then the path below the tier, for some order nu of
\* the paths below the tiers that agrees with the order before the moves
PathOrderAfter(pi) ==
    /\ \A k \in 1..(NumFiles - 1) : PlannedTier(pi[k]) <= PlannedTier(pi[k + 1])
    /\ \E nu \in FilePermutations :
          /\ \A a, b \in 1..NumFiles :
                (a < b /\ files[a].tier = files[b].tier) => nu[a] < nu[b]
          /\ \A k, l \in 1..NumFiles :
                (k < l /\ PlannedTier(pi[k]) = PlannedTier(pi[l])) => nu[pi[k]] < nu[pi[l]]

\* Executor::execute_plan with every move successful, followed by the next
\* plan_rebalance over the same tiers and strategies.  The strategies'
\* conditions give each file the verdict they gave before; a moved file
\* keeps its mtime or gets the time of its copy (rsync's extra_args).
ExecutePlan ==
    /\ pc = "done"
    /\ run = 1
    /\ \A t \in Tiers : FreeAfterExecution(t) >= 0
    /\ \E pi \in FilePermutations : \E keep_mtime \in BOOLEAN :
          /\ PathOrderAfter(pi)
          /\ files' = [k \in 1..NumFiles |->
                          LET f == pi[k]
                          IN [size |-> files[f].size,
                              tier |-> PlannedTier(f),
                              modified |-> IF keep_mtime \/ MovePosition(f) = 0
                                           THEN files[f].modified
                                           ELSE 2 + MovePosition(f)]]
          /\ matches' = [k \in 1..NumFiles |-> matches[pi[k]]]
    /\ tiers' = [t \in Tiers |-> [tiers[t] EXCEPT !.free = FreeAfterExecution(t)]]
    /\ run' = 2
    /\ first_plan' = BalancingPlan
    /\ pc' = "pass2"
    /\ queue' = SortBy([k \in 1..NumFiles |-> k], LAMBDA f1, f2 :
            \/ files'[f1].size > files'[f2].size
            \/ /\ files'[f1].size = files'[f2].size
               /\ \/ files'[f1].modified < files'[f2].modified
                  \/ /\ files'[f1].modified = files'[f2].modified
                     /\ f1 < f2)
    /\ tier_free_space' = [t \in Tiers |-> FreeAfterExecution(t)]
    /\ decisions' = <<>>
    /\ blocked_placements' = <<>>
    /\ warnings' = <<>>
    /\ by_tier' = [t \in Tiers |-> <<>>]
    /\ move_log' = <<>>
    /\ UNCHANGED <<moveVars, lockVars, runVars, hostVars, strategies>>

\* tiers without usage limits and with three different priorities
InitReplan ==
    /\ InitPlan /\ IdleMove /\ IdleLock /\ IdleRun
    /\ tiers \in UnlimitedTierConfigs
    /\ tiers[3].priority = 3
NextReplan == NextPlan \/ ExecutePlan
SpecReplan == InitReplan /\ [][NextReplan]_vars

\* the planner over files that several strategies match
InitSelection ==
    /\ InitPlanWith({ThreeTiers(None, None, None, 0, 1, 3)},
                    TiedStrategyConfigs, MultiMatchChoices)
    /\ IdleMove /\ IdleLock /\ IdleRun
SpecSelection == InitSelection /\ [][Next]_vars

\* two runs over the same input, for the inputs without usage limits
InitTwoRuns ==
    /\ InitPlan /\ IdleMove /\ IdleLock /\ IdleRun
    /\ tiers \in UnlimitedTierConfigs
    /\ tiers[3].priority = 3
    /\ strategies[1].is_required
NextTwoRuns == NextPlan \/ Rerun
SpecTwoRuns == InitTwoRuns /\ [][NextTwoRuns]_vars

(* ========================= claims: the planner ========================= *)
HasPass(p) == \E i \in 1..Len(move_log) : move_log[i].pass = p
DecisionsNaming(f) == {i \in 1..Len(decisions) : decisions[i].file = f}
InQueue(f) == \E k \in 1..Len(queue) : queue[k] = f

\* C1: every scanned file is named by exactly one decision: at every point
\* of planning each file already placed by Pass 2 has exactly one decision
\* and no other file has any, so the returned plan has exactly one decision
\* per file, also after Pass 3a and Pass 3b rewrote decisions.
C1_DecisionTotality ==
    pc # "panic" =>
        /\ Len(decisions) = NumFiles - Len(queue)
        /\ \A f \in Files :
              Cardinality(DecisionsNaming(f)) = (IF InQueue(f) THEN 0 ELSE 1)

C1_Witness ==
    /\ pc = "done"
    /\ HasPass("evict") /\ HasPass("replan") /\ HasPass("excess")
    /\ \A f \in Files : Cardinality(DecisionsNaming(f)) = 1

\* the simulated move m left its target with free space >= 0 and within the
\* target's ceiling
MoveFeasible(m) ==
    LET T == tiers[m.to_tier]
        after_free == m.free_before - m.size
    IN /\ after_free >= 0
       /\ \A max_percent \in T.max_usage_percent :
             PercentOf(T.total - after_free, T.total) <= max_percent

\* C2: every simulated move (Pass 2, eviction, re-planning, excess eviction)
\* leaves its target tier with simulated free >= 0 and usage within
\* max_usage_percent; every non-Stay decision is such a move, and in the
\* returned plan the projected usage of every tier a decision moves into is
\* within its ceiling.
C2_CapacityFeasible ==
    /\ \A i \in 1..Len(move_log) : MoveFeasible(move_log[i])
    /\ \A i \in 1..Len(decisions) :
          decisions[i].kind # "Stay" =>
             /\ \E k \in 1..Len(move_log) :
                   /\ move_log[k].file = decisions[i].file
                   /\ move_log[k].to_tier = decisions[i].to_tier
             /\ pc = "done" =>
                   \A max_percent \in tiers[decisions[i].to_tier].max_usage_percent :
                      calculate_projected_usage[decisions[i].to_tier].projected_percent
                         <= max_percent

C2_Witness ==
    /\ pc = "done"
    /\ \E k \in 1..Len(move_log), i \in 1..Len(decisions) :
          /\ move_log[k].pass \in {"evict", "replan"}
          /\ tiers[move_log[k].to_tier].max_usage_percent # None
          /\ decisions[i].kind # "Stay"
          /\ decisions[i].file = move_log[k].file
          /\ decisions[i].to_tier = move_log[k].to_tier

\* C3: every Promote goes to a tier of strictly smaller priority number and
\* every Demote to a tier of strictly greater priority number.
C3_TierPriorityConsistency ==
    \A i \in 1..Len(decisions) :
        LET d == decisions[i]
        IN /\ d.kind = "Promote" => tiers[d.to_tier].priority < tiers[d.from_tier].priority
           /\ d.kind = "Demote" => tiers[d.to_tier].priority > tiers[d.from_tier].priority

\* C4: a second plan_rebalance over the same input returns the plan the
\* first one returned.
C4_Determinism ==
    (pc = "done" /\ run = 2) => BalancingPlan = first_plan

(* ============================ the Mover ================================ *)
\* File contents are numbered; a file is [content, mtime].
NumContents == 4
MaxMtime == 2
Contents == 1..NumContents
File(content, mtime) == [content |-> content, mtime |-> mtime]
TheFile(opt) == CHOOSE x \in opt : TRUE

\* fs::metadata(..).len(): contents 1..3 have one length, the others another
len(file) == 1 + (file.content \div 4)

\* Hasher::calculate_hash: a function of the content alone, not injective
calculate_hash(file) == file.content % 2

\* staging under the destination's own name
direct_destination == "dst"

\* <dst>.<ext>.partial
temp_destination == "partial"

\* a cleanup that unlinks the source
remove_source_instead(f) == [f EXCEPT !["src"] = None]

\* let _ = fs::remove_file(&temp_destination)
remove_stale_copy(f) == [f EXCEPT ![temp_destination] = None]

\* a removal that leaves the source in place
keep_source(f) == f

\* fs::remove_file(source)
remove_source(f) == [f EXCEPT !["src"] = None]

\* a comparison that accepts any two checksums
checksums_always_match(a, b) == TRUE

\* source_checksum == dest_checksum
checksums_match(a, b) == a = b

Returns(r) == result' = r /\ mpc' = "returned"

\* ---- file names: the components between the dots, "episode.mkv" is
\* <<"episode", "mkv">>, "episode" is <<"episode">>, ".hidden" is <<"", "hidden">>

\* Path::extension: what follows the last dot; none without a dot, and none
\* when the only dot is the first character
extension(name) ==
    IF Len(name) = 1 \/ (Len(name) = 2 /\ name[1] = "") THEN None
    ELSE Some(name[Len(name)])

\* Path::file_stem: the name without its extension
file_stem(name) ==
    IF extension(name) = None THEN name ELSE SubSeq(name, 1, Len(name) - 1)

\* Path::with_extension: the stem, a dot, the given extension
with_extension(name, ext) == file_stem(name) \o ext

\* .extension().unwrap_or_default()
extension_or_default(name) ==
    IF extension(name) = None THEN "" ELSE TheFile(extension(name))

\* the backup's name: destination.with_extension(format!("{}.backup-{}", ext, timestamp))
backup_name(name) == with_extension(name, <<extension_or_default(name), "backup-secs">>)

\* the destination's name followed by ".backup-<secs>"
backup_sibling(name) == name \o <<"backup-secs">>

DestinationNames == {<<"episode", "mkv">>, <<"episode">>, <<"", "hidden">>}

\* ---- the directories above the source, from its parent (1) upward; the
\* parent of the last one is "/", whose own parent() is None
NumAncestors == 3
Ancestors == 1..NumAncestors
Dir(exists, others) == [exists |-> exists, others |-> others]

\* a tier root holding the lock file, below it directories with nothing but
\* the source
LockedRoot == [i \in Ancestors |-> Dir(TRUE, i >= 2)]

callInputs == <<src_before, dst_before, mover, has_oracle, destination, tier_root>>
moveHistory == <<callInputs, backup_path, staged_from, ancestors>>

\* the state at the call of move_file(source, destination)
InitMoveWith(names, roots, trees) ==
    /\ destination \in names /\ tier_root \in roots /\ ancestors \in trees
    /\ backup_path = None /\ staged_from = None
    /\ mover \in {"RsyncMover", "DryRunMover"}
    /\ has_oracle \in BOOLEAN
    /\ \E s, d \in {None} \cup {Some(File(c, 1)) : c \in Contents} :
          /\ filesystem = [n \in {"src", "dst", "partial", "backup"} |->
                              IF n = "src" THEN s ELSE IF n = "dst" THEN d ELSE None]
          /\ src_before = s /\ dst_before = d
    /\ src_open \in BOOLEAN
    /\ mpc = "preflight"
    /\ source_metadata = None /\ source_checksum = None /\ result = "running"
    /\ src_touched = FALSE /\ dst_deleted = FALSE
    /\ verified = None /\ removal = None

InitMove == InitMoveWith({<<"episode", "mkv">>}, {2}, {LockedRoot})

\* DryRunMover::move_file
DryRunMove ==
    /\ mover = "DryRunMover" /\ mpc = "preflight"
    /\ Returns("Ok")
    /\ UNCHANGED <<filesystem, src_open, source_metadata, source_checksum,
                   src_touched, dst_deleted, verified, removal, moveHistory>>
    /\ UNCHANGED <<planVars, lockVars, runVars, hostVars>>

\* source.exists(), and in mover.rs is_file_in_use(source)
Preflight ==
    /\ mover = "RsyncMover" /\ mpc = "preflight"
    /\ IF filesystem["src"] = None THEN Returns("NotFound")
       ELSE IF has_oracle /\ src_open THEN Returns("ResourceBusy")
       ELSE mpc' = "collision" /\ UNCHANGED result
    /\ UNCHANGED <<filesystem, src_open, source_metadata, source_checksum,
                   src_touched, dst_deleted, verified, removal, moveHistory>>
    /\ UNCHANGED <<planVars, lockVars, runVars, hostVars>>

\* destination.exists() and the two metadata reads
Collision ==
    /\ mpc = "collision"
    /\ IF filesystem["dst"] = None THEN mpc' = "copy" /\ UNCHANGED result
       ELSE IF filesystem["src"] = None THEN Returns("Io")
       ELSE IF len(TheFile(filesystem["src"])) = len(TheFile(filesystem["dst"]))
            THEN mpc' = "collision_hash" /\ UNCHANGED result
            ELSE mpc' = "backup" /\ UNCHANGED result
    /\ UNCHANGED <<filesystem, src_open, source_metadata, source_checksum,
                   src_touched, dst_deleted, verified, removal, moveHistory>>
    /\ UNCHANGED <<planVars, lockVars, runVars, hostVars>>

\* the two calculate_hash calls of the identical-destination test
CollisionHash ==
    /\ mpc = "collision_hash"
    /\ \E hasher \in {"ok", "error"} :
          IF hasher = "error" \/ filesystem["src"] = None \/ filesystem["dst"] = None
          THEN Returns("Io") /\ UNCHANGED source_checksum
          ELSE IF checksums_match(calculate_hash(TheFile(filesystem["src"])),
                                  calculate_hash(TheFile(filesystem["dst"])))
               THEN /\ source_checksum' = Some(calculate_hash(TheFile(filesystem["src"])))
                    /\ mpc' = "collision_remove" /\ UNCHANGED result
               ELSE mpc' = "backup" /\ UNCHANGED <<result, source_checksum>>
    /\ UNCHANGED <<filesystem, src_open, source_metadata,
                   src_touched, dst_deleted, verified, removal, moveHistory>>
    /\ UNCHANGED <<planVars, lockVars, runVars, hostVars>>

\* fs::remove_file(source)?; return Ok(()) of the identical-destination case
CollisionRemove ==
    /\ mpc = "collision_remove"
    /\ \E removed \in BOOLEAN :
          IF removed /\ filesystem["src"] # None
          THEN /\ filesystem' = remove_source(filesystem)
               /\ removal' = Some([dst |-> filesystem["dst"],
                                   source_checksum |-> source_checksum])
               /\ Returns("Ok")
          ELSE Returns("Io") /\ UNCHANGED <<filesystem, removal>>
    /\ UNCHANGED <<src_open, source_metadata, source_checksum,
                   src_touched, dst_deleted, verified, moveHistory>>
    /\ UNCHANGED <<planVars, lockVars, runVars, hostVars>>

\* fs::rename(destination, backup_path)?
Backup ==
    /\ mpc = "backup"
    /\ \E renamed \in BOOLEAN :
          IF renamed /\ filesystem["dst"] # None
          THEN /\ filesystem' = [filesystem EXCEPT !["backup"] = filesystem["dst"],
                                                  !["dst"] = None]
               /\ backup_path' = Some(backup_name(destination))
               /\ mpc' = "copy" /\ UNCHANGED result
          ELSE Returns("Io") /\ UNCHANGED <<filesystem, backup_path>>
    /\ UNCHANGED <<src_open, source_metadata, source_checksum,
                   src_touched, dst_deleted, verified, removal,
                   callInputs, staged_from, ancestors>>
    /\ UNCHANGED <<planVars, lockVars, runVars, hostVars>>

\* what the copier leaves at the staging name
\*   copied: exit 0, a faithful copy
\*   garbled: exit 0, other content
\*   nothing: exit 0, no file written (the extra arguments are the user's)
\*   failed: exit # 0, nothing left; failed_midway: exit # 0, a fragment left
CopierOutcomes(f) ==
    IF f["src"] = None THEN {"failed"}
    ELSE {"copied", "garbled", "nothing", "failed", "failed_midway"}

\* cmd.status()? and the test of the exit status
Copy ==
    /\ mpc = "copy"
    /\ \E outcome \in CopierOutcomes(filesystem) :
          CASE outcome = "copied" ->
                 /\ filesystem' = [filesystem EXCEPT ![temp_destination] = filesystem["src"]]
                 /\ staged_from' = filesystem["src"]
                 /\ mpc' = "temp_exists" /\ UNCHANGED result
            [] outcome = "garbled" ->
                 \E c \in Contents \ {TheFile(filesystem["src"]).content} :
                    /\ filesystem' = [filesystem EXCEPT ![temp_destination] =
                                        Some(File(c, TheFile(filesystem["src"]).mtime))]
                    /\ staged_from' = filesystem["src"]
                    /\ mpc' = "temp_exists" /\ UNCHANGED result
            [] outcome = "nothing" ->
                 /\ staged_from' = filesystem["src"]
                 /\ mpc' = "temp_exists" /\ UNCHANGED <<result, filesystem>>
            [] outcome = "failed" ->
                 /\ Returns("CopyFailed") /\ UNCHANGED <<filesystem, staged_from>>
            [] outcome = "failed_midway" ->
                 \E c \in Contents :
                    /\ filesystem' = [filesystem EXCEPT ![temp_destination] =
                                        Some(File(c, 1))]
                    /\ Returns("CopyFailed") /\ UNCHANGED staged_from
    /\ UNCHANGED <<src_open, source_metadata, source_checksum,
                   src_touched, dst_deleted, verified, removal,
                   callInputs, backup_path, ancestors>>
    /\ UNCHANGED <<planVars, lockVars, runVars, hostVars>>

\* temp_destination.exists()
TempExists ==
    /\ mpc = "temp_exists"
    /\ IF filesystem[temp_destination] = None THEN Returns("TempMissing")
       ELSE mpc' = "size_check" /\ UNCHANGED result
    /\ UNCHANGED <<filesystem, src_open, source_metadata, source_checksum,
                   src_touched, dst_deleted, verified, removal, moveHistory>>
    /\ UNCHANGED <<planVars, lockVars, runVars, hostVars>>

\* the metadata of source and staged copy, read after the copy, and their lengths
SizeCheck ==
    /\ mpc = "size_check"
    /\ IF filesystem["src"] = None \/ filesystem[temp_destination] = None
       THEN Returns("Io") /\ UNCHANGED <<filesystem, source_metadata>>
       ELSE LET source == TheFile(filesystem["src"])
                staged == TheFile(filesystem[temp_destination])
            IN IF len(source) # len(staged)
               THEN /\ filesystem' = remove_stale_copy(filesystem)
                    /\ Returns("SizeMismatch") /\ UNCHANGED source_metadata
               ELSE /\ source_metadata' = Some([len |-> len(source),
                                                modified |-> source.mtime])
                    /\ mpc' = "hash_check" /\ UNCHANGED <<result, filesystem>>
    /\ UNCHANGED <<src_open, source_checksum,
                   src_touched, dst_deleted, verified, removal, moveHistory>>
    /\ UNCHANGED <<planVars, lockVars, runVars, hostVars>>

\* source_checksum, dest_checksum and their comparison
HashCheck ==
    /\ mpc = "hash_check"
    /\ \E hasher \in {"ok", "error"} :
          IF hasher = "error" \/ filesystem["src"] = None
                \/ filesystem[temp_destination] = None
          THEN Returns("Io") /\ UNCHANGED <<filesystem, source_checksum>>
          ELSE LET sc == calculate_hash(TheFile(filesystem["src"]))
                   dc == calculate_hash(TheFile(filesystem[temp_destination]))
               IN IF ~checksums_match(sc, dc)
                  THEN /\ filesystem' = remove_stale_copy(filesystem)
                       /\ Returns("ChecksumMismatch") /\ UNCHANGED source_checksum
                  ELSE /\ source_checksum' = Some(sc)
                       /\ mpc' = "stability" /\ UNCHANGED <<result, filesystem>>
    /\ UNCHANGED <<src_open, source_metadata,
                   src_touched, dst_deleted, verified, removal, moveHistory>>
    /\ UNCHANGED <<planVars, lockVars, runVars, hostVars>>

\* source_metadata_after against source_metadata
Stability ==
    /\ mpc = "stability"
    /\ IF filesystem["src"] = None
       THEN Returns("Io") /\ UNCHANGED filesystem
       ELSE LET after == TheFile(filesystem["src"])
                before == TheFile(source_metadata)
            IN IF len(after) # before.len \/ after.mtime # before.modified
               THEN /\ filesystem' = remove_stale_copy(filesystem)
                    /\ Returns("SourceChanged")
               ELSE /\ mpc' = (IF has_oracle THEN "busy_recheck" ELSE "final_hash")
                    /\ UNCHANGED <<result, filesystem>>
    /\ UNCHANGED <<src_open, source_metadata, source_checksum,
                   src_touched, dst_deleted, verified, removal, moveHistory>>
    /\ UNCHANGED <<planVars, lockVars, runVars, hostVars>>

\* mover.rs: is_file_in_use(source) before deleting
BusyRecheck ==
    /\ mpc = "busy_recheck"
    /\ IF src_open
       THEN filesystem' = remove_stale_copy(filesystem) /\ Returns("ResourceBusy")
       ELSE mpc' = "final_hash" /\ UNCHANGED <<result, filesystem>>
    /\ UNCHANGED <<src_open, source_metadata, source_checksum,
                   src_touched, dst_deleted, verified, removal, moveHistory>>
    /\ UNCHANGED <<planVars, lockVars, runVars, hostVars>>

\* dest_checksum_final against source_checksum
FinalHash ==
    /\ mpc = "final_hash"
    /\ \E hasher \in {"ok", "error"} :
          IF hasher = "error" \/ filesystem[temp_destination] = None
          THEN Returns("Io") /\ UNCHANGED <<filesystem, verified>>
          ELSE IF ~checksums_match(calculate_hash(TheFile(filesystem[temp_destination])),
                                   TheFile(source_checksum))
               THEN /\ filesystem' = remove_stale_copy(filesystem)
                    /\ Returns("DestinationCorrupted") /\ UNCHANGED verified
               ELSE /\ verified' = filesystem[temp_destination]
                    /\ mpc' = "rename" /\ UNCHANGED <<result, filesystem>>
    /\ UNCHANGED <<src_open, source_metadata, source_checksum,
                   src_touched, dst_deleted, removal, moveHistory>>
    /\ UNCHANGED <<planVars, lockVars, runVars, hostVars>>

\* fs::rename(&temp_destination, destination)?
Rename ==
    /\ mpc = "rename"
    /\ \E renamed \in BOOLEAN :
          IF renamed /\ filesystem[temp_destination] # None
          THEN /\ filesystem' = [filesystem EXCEPT !["dst"] = filesystem[temp_destination],
                                                  ![temp_destination] = None]
               /\ mpc' = "remove_source" /\ UNCHANGED result
          ELSE Returns("Io") /\ UNCHANGED filesystem
    /\ UNCHANGED <<src_open, source_metadata, source_checksum,
                   src_touched, dst_deleted, verified, removal, moveHistory>>
    /\ UNCHANGED <<planVars, lockVars, runVars, hostVars>>

\* fs::remove_file(source)?
RemoveSource ==
    /\ mpc = "remove_source"
    /\ \E removed \in BOOLEAN :
          IF removed /\ filesystem["src"] # None
          THEN /\ filesystem' = remove_source(filesystem)
               /\ removal' = Some([dst |-> filesystem["dst"],
                                   source_checksum |-> source_checksum])
               /\ mpc' = (IF has_oracle THEN "postcondition" ELSE "sweep")
               /\ UNCHANGED result
          ELSE Returns("Io") /\ UNCHANGED <<filesystem, removal>>
    /\ UNCHANGED <<src_open, source_metadata, source_checksum,
                   src_touched, dst_deleted, verified, moveHistory>>
    /\ UNCHANGED <<planVars, lockVars, runVars, hostVars>>

\* the first ancestor, from the parent upward, that holds another entry
FirstNonEmpty(tree) == Min({i \in Ancestors : tree[i].others} \cup {NumAncestors + 1})

\* mover/mod.rs: the loop of fs::remove_dir(parent) from the source's parent
\* upward while parent.parent() is Some; it ends at the first directory that
\* is not empty or whose removal fails for another reason (refused)
Sweep ==
    /\ mpc = "sweep"
    /\ \E refused \in 1..(NumAncestors + 1) :
          LET stop == Min({FirstNonEmpty(ancestors), refused})
          IN ancestors' = [i \in Ancestors |->
                              IF i < stop THEN Dir(FALSE, FALSE) ELSE ancestors[i]]
    /\ mpc' = "postcondition"
    /\ UNCHANGED <<filesystem, src_open, source_metadata, source_checksum, result,
                   src_touched, dst_deleted, verified, removal,
                   callInputs, backup_path, staged_from>>
    /\ UNCHANGED <<planVars, lockVars, runVars, hostVars>>

\* !destination.exists() after the source is gone
PostCondition ==
    /\ mpc = "postcondition"
    /\ IF filesystem["dst"] = None THEN Returns("DestinationDisappeared")
       ELSE Returns("Ok")
    /\ UNCHANGED <<filesystem, src_open, source_metadata, source_checksum,
                   src_touched, dst_deleted, verified, removal, moveHistory>>
    /\ UNCHANGED <<planVars, lockVars, runVars, hostVars>>

\* ---- other processes, while the call runs
InCall == mpc \notin {"idle", "returned"}

\* a writer rewrites the source
OtherModifiesSrc ==
    /\ InCall /\ filesystem["src"] # None
    /\ TheFile(filesystem["src"]).mtime < MaxMtime
    /\ \E c \in Contents :
          filesystem' = [filesystem EXCEPT !["src"] =
                            Some(File(c, TheFile(filesystem["src"]).mtime + 1))]
    /\ src_touched' = TRUE
    /\ UNCHANGED <<src_open, mpc, source_metadata, source_checksum, result,
                   dst_deleted, verified, removal, moveHistory>>
    /\ UNCHANGED <<planVars, lockVars, runVars, hostVars>>

\* another process removes the destination
OtherDeletesDst ==
    /\ InCall /\ filesystem["dst"] # None
    /\ filesystem' = [filesystem EXCEPT !["dst"] = None]
    /\ dst_deleted' = TRUE
    /\ UNCHANGED <<src_open, mpc, source_metadata, source_checksum, result,
                   src_touched, verified, removal, moveHistory>>
    /\ UNCHANGED <<planVars, lockVars, runVars, hostVars>>

\* another process opens the source
OtherOpensSrc ==
    /\ InCall /\ ~src_open /\ filesystem["src"] # None
    /\ src_open' = TRUE
    /\ UNCHANGED <<filesystem, mpc, source_metadata, source_checksum, result,
                   src_touched, dst_deleted, verified, removal, moveHistory>>
    /\ UNCHANGED <<planVars, lockVars, runVars, hostVars>>

NextMove ==
    \/ DryRunMove \/ Preflight \/ Collision \/ CollisionHash \/ CollisionRemove
    \/ Backup \/ Copy \/ TempExists \/ SizeCheck \/ HashCheck \/ Stability
    \/ BusyRecheck \/ FinalHash \/ Rename \/ RemoveSource \/ Sweep \/ PostCondition
    \/ OtherModifiesSrc \/ OtherDeletesDst \/ OtherOpensSrc
InitMoveCall == InitMove /\ IdlePlan /\ IdleLock /\ IdleRun
SpecMove == InitMoveCall /\ [][NextMove]_vars

\* one process alone: the call with its copier, hasher and system-call
\* failures, and no other process touching the files
NextMoveAlone ==
    \/ DryRunMove \/ Preflight \/ Collision \/ CollisionHash \/ CollisionRemove
    \/ Backup \/ Copy \/ TempExists \/ SizeCheck \/ HashCheck \/ Stability
    \/ BusyRecheck \/ FinalHash \/ Rename \/ RemoveSource \/ Sweep \/ PostCondition
SpecMoveAlone == InitMoveCall /\ [][NextMoveAlone]_vars

(* ========================= claims: the Mover =========================== *)
IsErr == result \notin {"running", "Ok"}

C6_SuccessPostcondition ==
    (mover = "RsyncMover" /\ result = "Ok") =>
        /\ filesystem["src"] = None
        /\ filesystem["dst"] # None
        /\ src_before # None
        /\ calculate_hash(TheFile(filesystem["dst"])) = calculate_hash(TheFile(src_before))

C6_Witness ==
    /\ mover = "RsyncMover" /\ result = "Ok"
    /\ filesystem["backup"] # None /\ filesystem["backup"] = dst_before
    /\ filesystem["dst"] = src_before

\* C7 as stated: after any error of a call that found src, src still exists
\* with the size and mtime it had before the call (changes made by another
\* process aside).
C7_SrcKeptAfterAnyError ==
    (IsErr /\ src_before # None) =>
        /\ filesystem["src"] # None
        /\ ~src_touched =>
              /\ len(TheFile(filesystem["src"])) = len(TheFile(src_before))
              /\ TheFile(filesystem["src"]).mtime = TheFile(src_before).mtime

\* C7, amended: after any error other than the one of the post-condition
\* check (destination disappeared), src still exists, with the size and
\* mtime it had before the call unless another process changed it.
C7_SrcKeptAfterErrorBeforePostCondition ==
    (IsErr /\ result # "DestinationDisappeared" /\ src_before # None) =>
        /\ filesystem["src"] # None
        /\ ~src_touched => filesystem["src"] = src_before

C7_Witness ==
    /\ result = "Io" /\ verified # None /\ filesystem["dst"] = verified
    /\ src_before # None /\ filesystem["src"] = src_before

\* C8: after any error no staging file remains.
C8_NoPartialAfterError ==
    IsErr => filesystem[temp_destination] = None

NumProcs == 2
NumLockTiers == 2
MaxInodes == 4
Procs == 1..NumProcs
LockTiers == 1..NumLockTiers          \* in ascending order of tier path
Inodes == 1..MaxInodes
DeadPid == NumProcs + 1               \* the pid in a lock file left by a dead process

\* kill(pid, None).is_ok() (the unix build)
is_process_alive(pid) == pid \in Procs

\* the tier process p is locking, and the file it has open
CurrentTier(p) == tier_idx[p]
OpenFile(p) == TheFile(lock_file[p])

\* an inode is in use while a name or an open file refers to it
Referenced(i) ==
    \/ \E t \in LockTiers : lock_path[t] = Some(i)
    \/ \E p \in Procs : lock_file[p] = Some(i)
    \/ \E p \in Procs : \E k \in 1..Len(locks[p]) : locks[p][k][2] = i
FreshInodes == {i \in Inodes : ~Referenced(i)}

\* TierLockGuard::read_lock_info(lock_path): the record of the file now at the path
read_lock_info(t) ==
    IF lock_path[t] = None THEN None ELSE lock_info[TheFile(lock_path[t])]

InitLock ==
    /\ \E stale \in BOOLEAN :
          /\ lock_path = [t \in LockTiers |-> IF stale /\ t = 1 THEN Some(1) ELSE None]
          /\ lock_info = [i \in Inodes |-> IF stale /\ i = 1 THEN Some(DeadPid) ELSE None]
    /\ flock = [i \in Inodes |-> None]
    /\ lpc = [p \in Procs |-> "idle"]
    /\ tier_idx = [p \in Procs |-> 1]
    /\ lock_file = [p \in Procs |-> None]
    /\ locks = [p \in Procs |-> <<>>]
    /\ owner_info = [p \in Procs |-> None]
    /\ dropped = [p \in Procs |-> FALSE]

\* the call of try_lock_tiers
StartTryLock(p) ==
    /\ lpc[p] = "idle"
    /\ lpc' = [lpc EXCEPT ![p] = "exists"]
    /\ tier_idx' = [tier_idx EXCEPT ![p] = 1]
    /\ owner_info' = [owner_info EXCEPT ![p] = None]
    /\ UNCHANGED <<lock_path, flock, lock_info, lock_file, locks>>
    /\ UNCHANGED <<planVars, moveVars, runVars, dropped, hostVars>>

\* lock_path.exists()
Exists(p) ==
    /\ lpc[p] = "exists"
    /\ lpc' = [lpc EXCEPT ![p] = IF lock_path[CurrentTier(p)] # None
                                 THEN "cleanup_open" ELSE "open"]
    /\ UNCHANGED <<lock_path, flock, lock_info, tier_idx, lock_file, locks, owner_info>>
    /\ UNCHANGED <<planVars, moveVars, runVars, dropped, hostVars>>

\* cleanup_stale_lock: open the existing file
CleanupOpen(p) ==
    /\ lpc[p] = "cleanup_open"
    /\ IF lock_path[CurrentTier(p)] = None
       THEN lpc' = [lpc EXCEPT ![p] = "open"] /\ UNCHANGED lock_file
       ELSE /\ lock_file' = [lock_file EXCEPT ![p] = lock_path[CurrentTier(p)]]
            /\ lpc' = [lpc EXCEPT ![p] = "cleanup_lock"]
    /\ UNCHANGED <<lock_path, flock, lock_info, tier_idx, locks, owner_info>>
    /\ UNCHANGED <<planVars, moveVars, runVars, dropped, hostVars>>

\* cleanup_stale_lock: file.try_lock_exclusive()
CleanupLock(p) ==
    /\ lpc[p] = "cleanup_lock"
    /\ IF flock[OpenFile(p)] = None
       THEN /\ flock' = [flock EXCEPT ![OpenFile(p)] = Some(p)]
            /\ lpc' = [lpc EXCEPT ![p] = "cleanup_read"]
            /\ UNCHANGED lock_file
       ELSE /\ lock_file' = [lock_file EXCEPT ![p] = None]
            /\ lpc' = [lpc EXCEPT ![p] = "open"]
            /\ UNCHANGED flock
    /\ UNCHANGED <<lock_path, lock_info, tier_idx, locks, owner_info>>
    /\ UNCHANGED <<planVars, moveVars, runVars, dropped, hostVars>>

\* cleanup_stale_lock: read_lock_info and is_process_alive
CleanupRead(p) ==
    /\ lpc[p] = "cleanup_read"
    /\ LET info == read_lock_info(CurrentTier(p))
       IN lpc' = [lpc EXCEPT ![p] =
                     IF info # None /\ ~is_process_alive(TheFile(info))
                     THEN "cleanup_unlock_stale" ELSE "cleanup_unlock"]
    /\ UNCHANGED <<lock_path, flock, lock_info, tier_idx, lock_file, locks, owner_info>>
    /\ UNCHANGED <<planVars, moveVars, runVars, dropped, hostVars>>

\* cleanup_stale_lock: the owner is alive or unknown, release the lock
CleanupUnlock(p) ==
    /\ lpc[p] = "cleanup_unlock"
    /\ flock' = [flock EXCEPT ![OpenFile(p)] = None]
    /\ lock_file' = [lock_file EXCEPT ![p] = None]
    /\ lpc' = [lpc EXCEPT ![p] = "open"]
    /\ UNCHANGED <<lock_path, lock_info, tier_idx, locks, owner_info>>
    /\ UNCHANGED <<planVars, moveVars, runVars, dropped, hostVars>>

\* cleanup_stale_lock: file.unlock(); drop(file)
CleanupUnlockStale(p) ==
    /\ lpc[p] = "cleanup_unlock_stale"
    /\ flock' = [flock EXCEPT ![OpenFile(p)] = None]
    /\ lock_file' = [lock_file EXCEPT ![p] = None]
    /\ lpc' = [lpc EXCEPT ![p] = "cleanup_remove"]
    /\ UNCHANGED <<lock_path, lock_info, tier_idx, locks, owner_info>>
    /\ UNCHANGED <<planVars, moveVars, runVars, dropped, hostVars>>

\* a cleanup that leaves the file of the dead process at its path
CleanupWithoutRemove(p) ==
    /\ lpc[p] = "cleanup_remove"
    /\ lpc' = [lpc EXCEPT ![p] = "open"]
    /\ UNCHANGED <<lock_path, flock, lock_info, tier_idx, lock_file, locks, owner_info>>
    /\ UNCHANGED <<planVars, moveVars, runVars, dropped, hostVars>>

\* cleanup_stale_lock: fs::remove_file(lock_path).ok()
CleanupRemove(p) ==
    /\ lpc[p] = "cleanup_remove"
    /\ lock_path' = [lock_path EXCEPT ![CurrentTier(p)] = None]
    /\ lpc' = [lpc EXCEPT ![p] = "open"]
    /\ UNCHANGED <<flock, lock_info, tier_idx, lock_file, locks, owner_info>>
    /\ UNCHANGED <<planVars, moveVars, runVars, dropped, hostVars>>

\* OpenOptions::new().create(true).truncate(true).open(&lock_path)
Open(p) ==
    /\ lpc[p] = "open"
    /\ IF lock_path[CurrentTier(p)] = None
       THEN /\ FreshInodes # {}
            /\ LET i == Min(FreshInodes)
               IN /\ lock_path' = [lock_path EXCEPT ![CurrentTier(p)] = Some(i)]
                  /\ lock_info' = [lock_info EXCEPT ![i] = None]
                  /\ lock_file' = [lock_file EXCEPT ![p] = Some(i)]
       ELSE /\ lock_info' = [lock_info EXCEPT ![TheFile(lock_path[CurrentTier(p)])] = None]
            /\ lock_file' = [lock_file EXCEPT ![p] = lock_path[CurrentTier(p)]]
            /\ UNCHANGED lock_path
    /\ lpc' = [lpc EXCEPT ![p] = "try_lock"]
    /\ UNCHANGED <<flock, tier_idx, locks, owner_info>>
    /\ UNCHANGED <<planVars, moveVars, runVars, dropped, hostVars>>

\* lock_file.try_lock_exclusive()
TryLock(p) ==
    /\ lpc[p] = "try_lock"
    /\ IF flock[OpenFile(p)] = None
       THEN /\ flock' = [flock EXCEPT ![OpenFile(p)] = Some(p)]
            /\ lpc' = [lpc EXCEPT ![p] = "write"]
       ELSE /\ lpc' = [lpc EXCEPT ![p] = "busy"]
            /\ UNCHANGED flock
    /\ UNCHANGED <<lock_path, lock_info, tier_idx, lock_file, locks, owner_info>>
    /\ UNCHANGED <<planVars, moveVars, runVars, dropped, hostVars>>

\* set_len(0), write the LockInfo, locks.push(..); after the last tier Ok(Self { locks })
WriteInfo(p) ==
    /\ lpc[p] = "write"
    /\ lock_info' = [lock_info EXCEPT ![OpenFile(p)] = Some(p)]
    /\ locks' = [locks EXCEPT ![p] = Append(@, <<CurrentTier(p), OpenFile(p)>>)]
    /\ lock_file' = [lock_file EXCEPT ![p] = None]
    /\ IF CurrentTier(p) = NumLockTiers
       THEN lpc' = [lpc EXCEPT ![p] = "holding"] /\ UNCHANGED tier_idx
       ELSE /\ lpc' = [lpc EXCEPT ![p] = "exists"]
            /\ tier_idx' = [tier_idx EXCEPT ![p] = @ + 1]
    /\ UNCHANGED <<lock_path, flock, owner_info>>
    /\ UNCHANGED <<planVars, moveVars, runVars, dropped, hostVars>>

\* the lock is held by someone else: owner_info = read_lock_info(&lock_path)
Busy(p) ==
    /\ lpc[p] = "busy"
    /\ owner_info' = [owner_info EXCEPT ![p] = read_lock_info(CurrentTier(p))]
    /\ lpc' = [lpc EXCEPT ![p] = IF locks[p] = <<>> THEN "failed" ELSE "rollback_unlock"]
    /\ UNCHANGED <<lock_path, flock, lock_info, tier_idx, lock_file, locks>>
    /\ UNCHANGED <<planVars, moveVars, runVars, dropped, hostVars>>

\* release of the locks acquired earlier in the call: lock.unlock()
RollbackUnlock(p) ==
    /\ lpc[p] = "rollback_unlock"
    /\ flock' = [flock EXCEPT ![Head(locks[p])[2]] = None]
    /\ lpc' = [lpc EXCEPT ![p] = "rollback_remove"]
    /\ UNCHANGED <<lock_path, lock_info, tier_idx, lock_file, locks, owner_info>>
    /\ UNCHANGED <<planVars, moveVars, runVars, dropped, hostVars>>

\* release of the locks acquired earlier in the call: fs::remove_file(path)
RollbackRemove(p) ==
    /\ lpc[p] = "rollback_remove"
    /\ lock_path' = [lock_path EXCEPT ![Head(locks[p])[1]] = None]
    /\ locks' = [locks EXCEPT ![p] = Tail(@)]
    /\ lpc' = [lpc EXCEPT ![p] = IF Tail(locks[p]) = <<>> THEN "failed"
                                 ELSE "rollback_unlock"]
    /\ UNCHANGED <<flock, lock_info, tier_idx, lock_file, owner_info>>
    /\ UNCHANGED <<planVars, moveVars, runVars, dropped, hostVars>>

\* return Err(AppError::TierLocked { .. }); the file that could not be locked is closed
ReturnTierLocked(p) ==
    /\ lpc[p] = "failed"
    /\ lock_file' = [lock_file EXCEPT ![p] = None]
    /\ lpc' = [lpc EXCEPT ![p] = "idle"]
    /\ UNCHANGED <<lock_path, flock, lock_info, tier_idx, locks, owner_info>>
    /\ UNCHANGED <<planVars, moveVars, runVars, dropped, hostVars>>

\* a drop that leaves the OS lock in place
DropWithoutUnlock(p) ==
    /\ lpc[p] \in {"holding", "drop_unlock"}
    /\ lpc' = [lpc EXCEPT ![p] = "drop_remove"]
    /\ UNCHANGED <<lock_path, flock, lock_info, tier_idx, lock_file, locks, owner_info>>
    /\ UNCHANGED <<planVars, moveVars, runVars, dropped, hostVars>>

\* Drop for TierLockGuard: lock.unlock()
DropUnlock(p) ==
    /\ lpc[p] \in {"holding", "drop_unlock"}
    /\ flock' = [flock EXCEPT ![Head(locks[p])[2]] = None]
    /\ lpc' = [lpc EXCEPT ![p] = "drop_remove"]
    /\ UNCHANGED <<lock_path, lock_info, tier_idx, lock_file, locks, owner_info>>
    /\ UNCHANGED <<planVars, moveVars, runVars, dropped, hostVars>>

\* Drop for TierLockGuard: fs::remove_file(path)
DropRemove(p) ==
    /\ lpc[p] = "drop_remove"
    /\ lock_path' = [lock_path EXCEPT ![Head(locks[p])[1]] = None]
    /\ locks' = [locks EXCEPT ![p] = Tail(@)]
    /\ lpc' = [lpc EXCEPT ![p] = IF Tail(locks[p]) = <<>> THEN "idle" ELSE "drop_unlock"]
    /\ dropped' = [dropped EXCEPT ![p] = @ \/ Tail(locks[p]) = <<>>]
    /\ UNCHANGED <<flock, lock_info, tier_idx, lock_file, owner_info>>
    /\ UNCHANGED <<planVars, moveVars, runVars, hostVars>>

NextLock ==
    \/ \E p \in Procs : StartTryLock(p)
    \/ \E p \in Procs : Exists(p)
    \/ \E p \in Procs : CleanupOpen(p)
    \/ \E p \in Procs : CleanupLock(p)
    \/ \E p \in Procs : CleanupRead(p)
    \/ \E p \in Procs : CleanupUnlock(p)
    \/ \E p \in Procs : CleanupUnlockStale(p)
    \/ \E p \in Procs : CleanupRemove(p)
    \/ \E p \in Procs : Open(p)
    \/ \E p \in Procs : TryLock(p)
    \/ \E p \in Procs : WriteInfo(p)
    \/ \E p \in Procs : Busy(p)
    \/ \E p \in Procs : RollbackUnlock(p)
    \/ \E p \in Procs : RollbackRemove(p)
    \/ \E p \in Procs : ReturnTierLocked(p)
    \/ \E p \in Procs : DropUnlock(p)
    \/ \E p \in Procs : DropRemove(p)
InitLockCalls == InitLock /\ IdlePlan /\ IdleMove /\ IdleRun
SpecLock == InitLockCalls /\ [][NextLock]_vars

(* ========================= claims: the tier locks ====================== *)
Holding(p) == lpc[p] = "holding"

\* C10: at most one process at a time holds the locks of the tier set: no
\* two calls of try_lock_tiers have returned a guard that is still alive.
C10_MutualExclusion ==
    \A p, q \in Procs : (Holding(p) /\ Holding(q)) => p = q

(* ---- calls that do not overlap, over lock files left by dead processes ---- *)
\* the file a dead process left on tier t: an inode in use before the
\* calls start, outside the ones the calls allocate
StaleInode(t) == MaxInodes + t
StaleInodes == {StaleInode(t) : t \in LockTiers}

\* some tiers hold a lock file whose record names a dead process and on
\* which no OS lock is held
InitStaleLocks ==
    /\ \E stale \in (SUBSET LockTiers) \ {{}} :
          /\ lock_path = [t \in LockTiers |->
                            IF t \in stale THEN Some(StaleInode(t)) ELSE None]
          /\ lock_info = [i \in Inodes \cup StaleInodes |->
                            IF \E t \in stale : i = StaleInode(t)
                            THEN Some(DeadPid) ELSE None]
    /\ flock = [i \in Inodes \cup StaleInodes |-> None]
    /\ lpc = [p \in Procs |-> "idle"]
    /\ tier_idx = [p \in Procs |-> 1]
    /\ lock_file = [p \in Procs |-> None]
    /\ locks = [p \in Procs |-> <<>>]
    /\ owner_info = [p \in Procs |-> None]
    /\ dropped = [p \in Procs |-> FALSE]

\* a call starts when no other process is inside a call or holds a guard
StartTryLockAlone(p) ==
    /\ \A q \in Procs \ {p} : lpc[q] = "idle"
    /\ StartTryLock(p)

NextLockAlone ==
    \/ \E p \in Procs : StartTryLockAlone(p)
    \/ \E p \in Procs : Exists(p)
    \/ \E p \in Procs : CleanupOpen(p)
    \/ \E p \in Procs : CleanupLock(p)
    \/ \E p \in Procs : CleanupRead(p)
    \/ \E p \in Procs : CleanupUnlockStale(p)
    \/ \E p \in Procs : CleanupRemove(p)
    \/ \E p \in Procs : Open(p)
    \/ \E p \in Procs : TryLock(p)
    \/ \E p \in Procs : WriteInfo(p)
    \/ \E p \in Procs : DropUnlock(p)
    \/ \E p \in Procs : DropRemove(p)
InitStaleLockCalls == InitStaleLocks /\ IdlePlan /\ IdleMove /\ IdleRun
\* a process inside a call or a drop keeps running
SpecLockAlone ==
    InitStaleLockCalls /\ [][NextLockAlone]_vars /\ WF_vars(NextLockAlone)

\* C13: over a lock file whose record names a dead process and which nobody
\* has locked, a call of try_lock_tiers is never refused, it returns a
\* guard, and when it has returned no tier has the dead process's file at
\* its path any more.
C13_StaleLockRemoved ==
    /\ [](\A p \in Procs :
             /\ lpc[p] \notin {"busy", "rollback_unlock", "rollback_remove", "failed"}
             /\ lpc[p] = "holding" =>
                   \A t \in LockTiers : \A i \in StaleInodes : lock_path[t] # Some(i))
    /\ \A p \in Procs : (lpc[p] = "exists") ~> (lpc[p] = "holding")

\* a process holds a guard and the dead process's record is in a file that
\* is at no path any more
C13_Witness ==
    \E p \in Procs :
       /\ lpc[p] = "holding"
       /\ \E i \in StaleInodes :
             /\ lock_info[i] = Some(DeadPid)
             /\ \A t \in LockTiers : lock_path[t] # Some(i)

\* C12: when a guard is dropped, each step of the drop leaves the file it
\* held without the guard's OS lock and without its name; a process whose
\* guard is gone holds no OS lock; so a later try_lock is refused only
\* because another process, inside a call or holding a guard, has the lock
\* of the file at that moment, never because of what a dropped guard left.
C12_DropReleasesEverything ==
    /\ [](\A p \in Procs : lpc[p] = "idle" => \A i \in Inodes : flock[i] # Some(p))
    /\ [][\A p \in Procs :
             /\ lpc[p] = "drop_remove" /\ lpc'[p] # "drop_remove" =>
                   LET held == Head(locks[p])
                   IN /\ flock'[held[2]] # Some(p)
                      /\ lock_path'[held[1]] # Some(held[2])
             /\ lpc[p] = "try_lock" /\ lpc'[p] = "busy" =>
                   \E q \in Procs \ {p} :
                      flock[OpenFile(p)] = Some(q) /\ lpc[q] # "idle"]_vars

\* a process whose guard was dropped holds a new guard on the same tiers
C12_Witness ==
    \E p \in Procs : dropped[p] /\ lpc[p] = "holding" /\ Len(locks[p]) = NumLockTiers

(* ==================== claims: the order of the decisions =============== *)
\* C14: in the emitted list every Demote comes before every Promote, and
\* among the Demotes and among the Promotes the decisions are in descending
\* strategy priority, equal priorities in ascending path.
C14_DemotesBeforePromotes ==
    pc = "done" =>
       \A i, j \in 1..Len(decisions) :
          i < j =>
             /\ ~(decisions[i].kind = "Promote" /\ decisions[j].kind = "Demote")
             /\ (decisions[i].kind = decisions[j].kind /\ decisions[i].kind # "Stay") =>
                   \/ decisions[i].priority > decisions[j].priority
                   \/ /\ decisions[i].priority = decisions[j].priority
                      /\ decisions[i].file < decisions[j].file

\* C15: when a plan has been executed in full, the plan_rebalance that
\* follows over the same tiers and strategies returns Stay decisions only.
C15_ReplanIsAllStay ==
    (pc = "done" /\ run = 2) =>
       \A i \in 1..Len(decisions) : decisions[i].kind = "Stay"

\* the decision of the final plan for a file
DecisionIndex(f) == CHOOSE i \in 1..Len(decisions) : decisions[i].file = f
DecisionOf(f) == decisions[DecisionIndex(f)]

\* C16: B is blocked on the cache in Pass 2, A Stays there under a strategy
\* of strictly lower priority, is at least as large as B and the storage
\* tier accepts it: in the final plan A is a Demote to the storage tier, B
\* is a move into the cache, A's Demote comes before B's move, and the
\* projected usage of the cache is within its max_usage_percent.
C16_EvictionMakesRoom ==
    pc = "done" =>
       /\ DecisionOf(FileA).kind = "Demote" /\ DecisionOf(FileA).to_tier = Storage
       /\ DecisionOf(FileB).kind = "Promote" /\ DecisionOf(FileB).to_tier = Cache
       /\ DecisionIndex(FileA) < DecisionIndex(FileB)
       /\ tiers[Cache].max_usage_percent # None =>
             BalancingPlan.projected_tier_usage[Cache]
                <= TheFile(tiers[Cache].max_usage_percent)

(* ============ claims: a blocked placement without an evictee =========== *)
\* Pass 3a is about to handle tier T, on which exactly one placement is
\* blocked, and every Stay decision on T has at least its priority
SoleBlockedNoEvictee(T) ==
    /\ pc = "pass3a"
    /\ Len(by_tier[T]) = 1
    /\ \A i \in 1..Len(decisions) :
          (decisions[i].kind = "Stay" /\ decisions[i].from_tier = T)
             => decisions[i].priority >= by_tier[T][1].strategy_priority

\* the step of Pass 3a that handles tier T
HandlesTier(T) == by_tier[T] # <<>> /\ by_tier'[T] = <<>>

OccupantsKept(T) ==
    \A i \in 1..Len(decisions) :
       (decisions[i].kind = "Stay" /\ decisions[i].from_tier = T)
          => decisions'[i] = decisions[i]

WarnedIffRequired(b) ==
    (\E i \in 1..Len(warnings) : warnings[i].file = b.file)
       <=> strategies[find_matching_strategy(b.file)].is_required

\* C17 as stated: under these conditions the step of Pass 3a for T rewrites
\* no occupant's decision, leaves B's decision a Stay on its current tier,
\* and the plan warns RequiredStrategyFailed for B exactly when B's
\* strategy is required.
C17_BlockedStaysBlocked ==
    [][\A T \in Tiers :
          (SoleBlockedNoEvictee(T) /\ HandlesTier(T)) =>
             LET b == by_tier[T][1]
             IN /\ OccupantsKept(T)
                /\ \A i \in 1..Len(decisions) :
                      decisions[i].file = b.file =>
                         /\ decisions'[i].kind = "Stay"
                         /\ decisions'[i].to_tier = b.current_tier
                /\ WarnedIffRequired(b)]_vars

\* C17, amended: under these conditions the step of Pass 3a for T rewrites
\* no occupant's decision; B's decision is left as it was when T does not
\* accept B, and becomes a move to T when T has room for B by then (a later
\* Pass 2 move took a file off T); the plan warns RequiredStrategyFailed
\* for B exactly when B's strategy is required.
C17_BlockedStaysUnlessRoom ==
    [][\A T \in Tiers :
          (SoleBlockedNoEvictee(T) /\ HandlesTier(T) /\ pc' # "panic") =>
             LET b == by_tier[T][1]
                 fits == EvictionPlanner_can_accept_file(
                            tiers[T], files[b.file].size, tier_free_space[T])
             IN /\ OccupantsKept(T)
                /\ \A i \in 1..Len(decisions) :
                      decisions[i].file = b.file =>
                         IF fits
                         THEN /\ decisions'[i].kind # "Stay"
                              /\ decisions'[i].from_tier = b.current_tier
                              /\ decisions'[i].to_tier = T
                         ELSE decisions'[i] = decisions[i]
                /\ WarnedIffRequired(b)]_vars

\* a plan without any move in which a file with a required strategy stays
\* off its preferred tier T, T holds a file of at least its priority, and no
\* other file waits for T
C17_Witness ==
    /\ pc = "done" /\ move_log = <<>>
    /\ \E b \in DOMAIN files :
          LET si == find_matching_strategy(b)
          IN /\ si # 0
             /\ strategies[si].action = "Evaluate"
             /\ LET T == strategies[si].preferred_tiers[1]
                IN /\ files[b].tier # T
                   /\ \E i \in 1..Len(warnings) : warnings[i].file = b
                   /\ \E i \in 1..Len(decisions) :
                         /\ decisions[i].from_tier = T
                         /\ decisions[i].priority >= strategies[si].priority
                   /\ \A c \in DOMAIN files \ {b} :
                         LET sc == find_matching_strategy(c)
                         IN sc # 0 => \/ files[c].tier = T
                                      \/ strategies[sc].preferred_tiers[1] # T

(* ================= claims: the floor of a tier's usage ================= *)
\* the file Pass 2 handles next has an ideal tier slower than its tier X,
\* and X has a min_usage_percent above its live usage
DemotionBelowFloor ==
    /\ pc = "pass2" /\ queue # <<>>
    /\ LET file == Head(queue)
           X == files[file].tier
           si == find_matching_strategy(file)
       IN /\ si # 0
          /\ strategies[si].action = "Evaluate"
          /\ LET ideal_tier == find_ideal_tier_simulated(
                                  strategies[si], files[file].size, tier_free_space)
             IN /\ ideal_tier # 0
                /\ tiers[ideal_tier].priority > tiers[X].priority
          /\ \E min \in tiers[X].min_usage_percent : usage_percent(tiers[X]) < min

\* C18: when the ideal tier of a file is slower than its tier X and X has a
\* min_usage_percent above its live usage, Pass 2 emits a Stay on X (with
\* the strategy's name and priority) and leaves the simulated free space as
\* it is.
C18_FloorRefusesDemotion ==
    [][(DemotionBelowFloor /\ pc' # "panic") =>
          LET file == Head(queue)
              strategy == strategies[find_matching_strategy(file)]
          IN /\ decisions' = Append(decisions,
                    Stay(file, files[file].tier, strategy.name, strategy.priority))
             /\ tier_free_space' = tier_free_space
             /\ move_log' = move_log]_vars

\* the first decision of Pass 2 is a Stay on a tier below its floor for a
\* file whose strategy prefers the slowest tier, which has room
C18_Witness ==
    /\ Len(decisions) = 1
    /\ decisions[1].kind = "Stay"
    /\ tier_free_space = [t \in Tiers |-> tiers[t].free]
    /\ LET X == decisions[1].from_tier
           si == find_matching_strategy(decisions[1].file)
       IN /\ si # 0
          /\ strategies[si].action = "Evaluate"
          /\ strategies[si].preferred_tiers = <<3>>
          /\ tiers[3].priority > tiers[X].priority
          /\ can_accept_file(tiers[3], files[decisions[1].file].size, tier_free_space[3])
          /\ \E min \in tiers[X].min_usage_percent : usage_percent(tiers[X]) < min

(* ================= claims: files whose policy is to stay =============== *)
\* no strategy matches the file, or the selected strategy has action Stay
PolicyIsStay(f) ==
    LET si == find_matching_strategy(f)
    IN si = 0 \/ strategies[si].action = "Stay"

\* C19: a file that no strategy matches, or whose selected strategy has
\* action Stay, has a Stay decision on its current tier in the plan that
\* plan_rebalance returns.
C19_StayPolicyKept ==
    pc = "done" =>
       \A f \in DOMAIN files :
          PolicyIsStay(f) =>
             \E i \in 1..Len(decisions) :
                /\ decisions[i].file = f
                /\ decisions[i].kind = "Stay"
                /\ decisions[i].to_tier = files[f].tier

(* ================ claims: the choice among strategies ================== *)
\* the decision d names a strategy that matches its file, has the greatest
\* priority among the matching ones, and among those of that priority has
\* the name that NameWins prefers to every other
SelectedBy(d, NameWins(_, _)) ==
    matches[d.file] # {} =>
       \E s \in matches[d.file] :
          /\ strategies[s].name = d.strategy
          /\ strategies[s].priority = d.priority
          /\ \A j \in matches[d.file] \ {s} :
                \/ strategies[j].priority < strategies[s].priority
                \/ /\ strategies[j].priority = strategies[s].priority
                   /\ NameWins(strategies[s].name, strategies[j].name)

\* C20 as stated: among the matching strategies of greatest priority the
\* one whose name is first in ascending order is selected.
C20_TieToFirstName ==
    \A i \in 1..Len(decisions) :
       SelectedBy(decisions[i], LAMBDA mine, other : mine < other)

\* C20, amended: the selected strategy has the greatest priority among the
\* matching ones, and among those of that priority the name that is last
\* in ascending order, whatever the order of the listing.
C20_TieToLastName ==
    \A i \in 1..Len(decisions) :
       SelectedBy(decisions[i], LAMBDA mine, other : mine > other)

\* a decision for a file that both strategies of the greatest priority
\* match, with the strategies listed in descending order of name
C20_Witness ==
    /\ strategies[1].name > strategies[2].name
    /\ \E i \in 1..Len(decisions) :
          \E s, j \in matches[decisions[i].file] :
             /\ s # j
             /\ strategies[s].priority = strategies[j].priority
             /\ strategies[s].priority = decisions[i].priority

(* ================ claims: the ceiling of a tier's usage ================ *)
\* the used bytes of tier t once a file of `size` bytes is placed on it
UsedAfter(t, free, size) == tiers[t].total - (free - size)

\* the file takes tier t to the first byte above its max_usage_percent
FirstByteOver(t, free, size) ==
    \E m \in tiers[t].max_usage_percent :
        /\ free >= size
        /\ (UsedAfter(t, free, size) - 1) * 100 <= m * tiers[t].total
        /\ UsedAfter(t, free, size) * 100 > m * tiers[t].total

\* C21: can_accept admits a file that brings a tier to exactly its
\* max_usage_percent of the total bytes, refuses the file that brings it to
\* the first byte above that, and refuses a file larger than the simulated
\* free space: the files Pass 2 moves are files can_accept admitted, and
\* none of them leaves its destination one byte above the ceiling.
C21_CeilingToTheByte ==
    /\ \A t \in Tiers : \A size \in 1..MaxFileSize :
          LET free == tier_free_space[t]
              accepts == can_accept_file(tiers[t], size, free)
          IN /\ free < size => ~accepts
             /\ \A m \in tiers[t].max_usage_percent :
                   (free >= size /\ free - size <= tiers[t].total
                    /\ UsedAfter(t, free, size) * 100 = m * tiers[t].total) => accepts
    /\ \A i \in 1..Len(move_log) :
          LET e == move_log[i]
          IN e.pass = "pass2"
             => /\ can_accept_file(tiers[e.to_tier], e.size, e.free_before)
                /\ ~FirstByteOver(e.to_tier, e.free_before, e.size)

(* ====================== one run: run_rebalance (main.rs) =============== *)
\* Bound: the number of decisions of a plan
MaxDecisions == 3

DecisionKinds == {"Stay", "Promote", "Demote"}
\* a file lies in the root directory of its tier or in a directory below it
Parents == {"root", "nested"}
\* the run's tiers: a fast one and a slow one
FastTier == 1
SlowTier == 2
RunTiers == {FastTier, SlowTier}

\* the i-th decision of a plan: the file with the i-th path of the plan, of
\* i bytes; a Promote goes from the slow tier to the fast one, a Demote the
\* other way
RunDecision(kind, parent, i) ==
    [kind |-> kind, file |-> i, size |-> i, parent |-> parent,
     from_tier |-> IF kind = "Promote" THEN SlowTier ELSE FastTier,
     to_tier |-> IF kind = "Demote" THEN SlowTier ELSE FastTier]

Plans ==
    UNION { { [i \in 1..n |-> RunDecision(k[i][1], k[i][2], i)] :
                k \in [1..n -> DecisionKinds \X Parents] } : n \in 0..MaxDecisions }

\* a step that reads or writes the files of the tiers, with the state of
\* the guard at the time of the step
RunStep(op) == [op |-> op, guard |-> lock_guard, decision |-> next_decision]

execVars == <<exec_result, tier_dirs, file_at>>

InitRun ==
    /\ rpc = "from_file" /\ lock_guard = "none" /\ plan = <<>>
    /\ next_decision = 0 /\ run_log = <<>>
    /\ dry_run \in BOOLEAN
    /\ exec_result = NoResult
    /\ tier_dirs \in [RunTiers -> BOOLEAN]
    /\ file_at = <<>>

\* BalancingConfig::from_file(config_path)?
LoadConfig ==
    /\ rpc = "from_file"
    /\ \E ok \in BOOLEAN : rpc' = IF ok THEN "into_tier" ELSE "config_err"
    /\ UNCHANGED <<lock_guard, plan, next_decision, run_log, dry_run, execVars>>
    /\ UNCHANGED <<planVars, moveVars, lockVars, hostVars>>

\* config.tiers ... .map(TierConfig::into_tier).collect::<Result<_, _>>()?
IntoTier ==
    /\ rpc = "into_tier"
    /\ \E ok \in BOOLEAN : rpc' = IF ok THEN "try_lock_tiers" ELSE "config_err"
    /\ UNCHANGED <<lock_guard, plan, next_decision, run_log, dry_run, execVars>>
    /\ UNCHANGED <<planVars, moveVars, lockVars, hostVars>>

\* let _lock_guard = match TierLockGuard::try_lock_tiers(&tiers):
\* Ok(guard) binds the guard for the rest of the function; both error arms
\* end the process with process::exit(1)
TryLockTiers ==
    /\ rpc = "try_lock_tiers"
    /\ \E r \in {"Ok", "TierLocked", "Io"} :
          IF r = "Ok"
          THEN rpc' = "plan_rebalance" /\ lock_guard' = "held"
          ELSE rpc' = "lock_err" /\ UNCHANGED lock_guard
    /\ UNCHANGED <<plan, next_decision, run_log, dry_run, execVars>>
    /\ UNCHANGED <<planVars, moveVars, lockVars, hostVars>>

\* balancer.plan_rebalance(): scans the tiers and returns the decisions; the
\* directory of a scanned file exists on the file's tier.  execute_plan
\* starts with an empty ExecutionResult.
PlanRebalance ==
    /\ rpc = "plan_rebalance"
    /\ \E p \in Plans :
          /\ \A i \in 1..Len(p) : p[i].parent = "nested" => tier_dirs[p[i].from_tier]
          /\ plan' = p
          /\ file_at' = [i \in 1..Len(p) |-> p[i].from_tier]
    /\ next_decision' = 1
    /\ run_log' = Append(run_log, RunStep("plan"))
    /\ exec_result' = NoResult
    /\ rpc' = "execute_plan"
    /\ UNCHANGED <<lock_guard, dry_run, tier_dirs>>
    /\ UNCHANGED <<planVars, moveVars, lockVars, hostVars>>

\* Executor::execute_plan: a Stay decision is counted, a Promote or a Demote
\* goes to move_file_between_tiers; after the last decision the result is
\* returned
ExecuteDecision ==
    /\ rpc = "execute_plan"
    /\ IF next_decision > Len(plan)
       THEN rpc' = "output" /\ UNCHANGED <<next_decision, exec_result>>
       ELSE IF plan[next_decision].kind = "Stay"
            THEN /\ exec_result' = [exec_result EXCEPT !.files_stayed = @ + 1]
                 /\ next_decision' = next_decision + 1
                 /\ UNCHANGED rpc
            ELSE rpc' = "move_file" /\ UNCHANGED <<next_decision, exec_result>>
    /\ UNCHANGED <<lock_guard, plan, run_log, dry_run, tier_dirs, file_at>>
    /\ UNCHANGED <<planVars, moveVars, lockVars, hostVars>>

ExecutionError(decision) ==
    [file |-> decision.file, from_tier |-> decision.from_tier,
     to_tier |-> decision.to_tier]

\* what the Mover in use can answer: DryRunMover::move_file logs and
\* returns Ok(()); the RsyncMover moves the file or fails
MoverAnswers == IF dry_run THEN {"Ok"} ELSE {"Ok", "Err"}

\* the arm of execute_plan for a Promote or a Demote, where a failed move
\* ends the loop
MoveOrAbort ==
    /\ rpc = "move_file"
    /\ LET decision == plan[next_decision]
       IN \E answer \in {"create_dir_all failed"} \cup MoverAnswers :
          /\ tier_dirs' =
                IF decision.parent = "nested" /\ answer # "create_dir_all failed"
                THEN [tier_dirs EXCEPT ![decision.to_tier] = TRUE]
                ELSE tier_dirs
          /\ file_at' =
                IF answer = "Ok" /\ ~dry_run
                THEN [file_at EXCEPT ![decision.file] = decision.to_tier]
                ELSE file_at
          /\ IF answer = "Ok"
             THEN /\ exec_result' = [exec_result EXCEPT
                        !.files_moved = @ + 1, !.bytes_moved = @ + decision.size]
                  /\ run_log' = Append(run_log, RunStep("moved"))
                  /\ rpc' = "execute_plan"
                  /\ next_decision' = next_decision + 1
             ELSE /\ exec_result' = [exec_result EXCEPT
                        !.errors = Append(@, ExecutionError(decision))]
                  /\ run_log' = Append(run_log, RunStep("move_err"))
                  /\ rpc' = "output"
                  /\ UNCHANGED next_decision
    /\ UNCHANGED <<lock_guard, plan, dry_run>>
    /\ UNCHANGED <<planVars, moveVars, lockVars, hostVars>>

\* the arm of execute_plan for a Promote or a Demote.
\* move_file_between_tiers creates the parent directory of the destination
\* (fs::create_dir_all) and then calls mover.move_file; Ok adds the file to
\* files_moved and its size to bytes_moved, Err pushes an ExecutionError,
\* and the loop goes on with the next decision.  A move the RsyncMover
\* fails leaves the file on its tier.
MoveFileBetweenTiers ==
    /\ rpc = "move_file"
    /\ LET decision == plan[next_decision]
       IN \E answer \in {"create_dir_all failed"} \cup MoverAnswers :
          /\ tier_dirs' =
                IF decision.parent = "nested" /\ answer # "create_dir_all failed"
                THEN [tier_dirs EXCEPT ![decision.to_tier] = TRUE]
                ELSE tier_dirs
          /\ file_at' =
                IF answer = "Ok" /\ ~dry_run
                THEN [file_at EXCEPT ![decision.file] = decision.to_tier]
                ELSE file_at
          /\ IF answer = "Ok"
             THEN /\ exec_result' = [exec_result EXCEPT
                        !.files_moved = @ + 1, !.bytes_moved = @ + decision.size]
                  /\ run_log' = Append(run_log, RunStep("moved"))
             ELSE /\ exec_result' = [exec_result EXCEPT
                        !.errors = Append(@, ExecutionError(decision))]
                  /\ run_log' = Append(run_log, RunStep("move_err"))
    /\ next_decision' = next_decision + 1
    /\ rpc' = "execute_plan"
    /\ UNCHANGED <<lock_guard, plan, dry_run>>
    /\ UNCHANGED <<planVars, moveVars, lockVars, hostVars>>

\* the report: the Json and Yaml formats leave with `?` on a
\* serialisation error
Output ==
    /\ rpc = "output"
    /\ \E ok \in BOOLEAN : rpc' = IF ok THEN "return_ok" ELSE "return_err"
    /\ UNCHANGED <<lock_guard, plan, next_decision, run_log, dry_run, execVars>>
    /\ UNCHANGED <<planVars, moveVars, lockVars, hostVars>>

\* the binding drops where the guard would drop if it were bound to `_`:
\* at any point after the binding
DropLockGuardEarly ==
    /\ lock_guard = "held"
    /\ lock_guard' = "dropped"
    /\ UNCHANGED <<rpc, plan, next_decision, run_log, dry_run, execVars>>
    /\ UNCHANGED <<planVars, moveVars, lockVars, hostVars>>

\* _lock_guard goes out of scope when run_rebalance returns
DropLockGuard ==
    /\ rpc \in {"return_ok", "return_err"}
    /\ lock_guard = "held"
    /\ lock_guard' = "dropped"
    /\ UNCHANGED <<rpc, plan, next_decision, run_log, dry_run, execVars>>
    /\ UNCHANGED <<planVars, moveVars, lockVars, hostVars>>

NextRun ==
    \/ LoadConfig
    \/ IntoTier
    \/ TryLockTiers
    \/ PlanRebalance
    \/ ExecuteDecision
    \/ MoveFileBetweenTiers
    \/ Output
    \/ DropLockGuard
InitRunCall == InitRun /\ IdleHost /\ IdlePlan /\ IdleMove /\ IdleLock
SpecRun == InitRunCall /\ [][NextRun]_vars

(* ============================ claims: the run ========================== *)
\* C11: a failure of the configuration load or of the lock ends the run with
\* no step on the tiers' files; planning and every Mover call happen while
\* the run's lock guard is held; and once the guard is released no further
\* step on the files is taken (the guard outlives the last move).
C11_WorkOnlyUnderGuard ==
    /\ [](/\ rpc \in {"config_err", "lock_err"} => run_log = <<>>
          /\ \A i \in 1..Len(run_log) : run_log[i].guard = "held"
          /\ rpc \in {"plan_rebalance", "execute_plan", "move_file"}
                => lock_guard = "held")
    /\ [][lock_guard = "dropped" => run_log' = run_log]_vars

\* a run that moved a file, reached the end of the plan and released the guard
C11_Witness ==
    /\ lock_guard = "dropped"
    /\ \E i \in 1..Len(run_log) : run_log[i].op = "moved"
    /\ plan # <<>> /\ plan[Len(plan)].kind # "Stay"

(* ====================== claims: the execution of a plan ================ *)
\* the log entries of the moves execute_plan attempted, in order
MoveSteps == SelectSeq(run_log, LAMBDA e : e.op \in {"moved", "move_err"})

\* execute_plan has returned its result
Executed == rpc \in {"output", "return_ok", "return_err"}

\* C22: execute_plan handles the decisions one by one in plan order, each
\* once, whatever failed before: a Stay adds one to files_stayed, a move
\* that succeeds adds one to files_moved and the file's size to
\* bytes_moved, a move that fails adds one ExecutionError naming the file
\* and both tiers, and the next decision follows; so when execute_plan
\* returns, files_moved + files_stayed + the number of errors is the number
\* of decisions.
C22_EveryDecisionHandledOnce ==
    rpc \in {"execute_plan", "move_file"} \cup {"output", "return_ok", "return_err"}
    => LET handled == 1..(next_decision - 1)
           moved == SelectSeq(MoveSteps, LAMBDA e : e.op = "moved")
           failed == SelectSeq(MoveSteps, LAMBDA e : e.op = "move_err")
       IN /\ Executed => next_decision = Len(plan) + 1
          /\ exec_result.files_moved + exec_result.files_stayed
                + Len(exec_result.errors) = next_decision - 1
          /\ exec_result.files_stayed
                = Cardinality({i \in handled : plan[i].kind = "Stay"})
          /\ \A i \in 1..Len(MoveSteps) :
                /\ MoveSteps[i].decision \in handled
                /\ plan[MoveSteps[i].decision].kind # "Stay"
                /\ \A j \in 1..(i - 1) : MoveSteps[j].decision < MoveSteps[i].decision
          /\ {MoveSteps[i].decision : i \in 1..Len(MoveSteps)}
                = {i \in handled : plan[i].kind # "Stay"}
          /\ exec_result.files_moved = Len(moved)
          /\ exec_result.bytes_moved
                = SumSeq([i \in 1..Len(moved) |-> plan[moved[i].decision].size])
          /\ exec_result.errors
                = [i \in 1..Len(failed) |-> ExecutionError(plan[failed[i].decision])]

\* a plan executed to its end in which a move failed, a later move
\* succeeded and a file stayed
C22_Witness ==
    /\ rpc = "return_ok"
    /\ exec_result.files_stayed > 0
    /\ \E i, j \in 1..Len(MoveSteps) :
          i < j /\ MoveSteps[i].op = "move_err" /\ MoveSteps[j].op = "moved"

\* C23: in dry-run mode the execution of a plan leaves the trees of the
\* tiers as they are: no step of execute_plan creates a directory or takes
\* a file to another tier, so the next scan finds the same files and the
\* next plan is the same.
C23_DryRunTouchesNothing ==
    [][(dry_run /\ rpc \in {"execute_plan", "move_file"})
          => (tier_dirs' = tier_dirs /\ file_at' = file_at)]_vars

(* ================= claims: the record in the lock file ================= *)
\* C24: a try_lock_tiers call that finds the lock held by a live process
\* reports the PID and host that holder recorded in the lock file, and the
\* attempt leaves the holder's record as it was: while a process keeps its
\* lock on a file, the record it wrote there stays.
C24_BusyReportsOwner ==
    [][\A p, q \in Procs :
          /\ (/\ lpc[p] = "busy" /\ lpc'[p] # "busy"
              /\ flock[OpenFile(p)] = Some(q)
              /\ lpc[q] \in {"exists", "open", "try_lock", "write", "holding"})
                => owner_info'[p] = Some(q)
          /\ \A i \in Inodes :
                (/\ flock[i] = Some(q) /\ flock'[i] = Some(q)
                 /\ lock_info[i] = Some(q))
                => lock_info'[i] = Some(q)]_vars

(* ================ claims: the simulated free space ===================== *)
\* the bytes of the files whose final decision satisfies Test
PlannedBytes(Test(_)) ==
    SumSeq([i \in 1..Len(decisions) |->
              IF Test(decisions[i]) THEN files[decisions[i].file].size ELSE 0])

\* C25: when planning ends, the simulated free space of every tier is the
\* tier's free space at the start plus the sizes of the files whose final
\* decision takes them off the tier minus the sizes of the files whose final
\* decision brings them onto it: whatever Pass 2, Pass 3a and Pass 3b did to
\* a file's decision, its move is counted once.
C25_FreeSpaceMatchesDecisions ==
    pc = "done"
    => \A t \in Tiers :
          tier_free_space[t]
             = tiers[t].free
               + PlannedBytes(LAMBDA d : d.kind # "Stay" /\ d.from_tier = t)
               - PlannedBytes(LAMBDA d : d.kind # "Stay" /\ d.to_tier = t)

(* ================= claims: the plan executed in order ================== *)
\* the free bytes of tier t once the first k decisions of the plan have
\* been carried out, from the free space seen at planning
FreeAfterPrefix(t, k) ==
    tiers[t].free
    + SumSeq([i \in 1..k |->
                IF decisions[i].kind # "Stay" /\ decisions[i].from_tier = t
                THEN files[decisions[i].file].size ELSE 0])
    - SumSeq([i \in 1..k |->
                IF decisions[i].kind # "Stay" /\ decisions[i].to_tier = t
                THEN files[decisions[i].file].size ELSE 0])

\* C26: the decisions can be carried out in the order of the plan: from the
\* free space seen at planning, every move finds its destination with room
\* for the file and, with the file on it, within its max_usage_percent; the
\* space a move relies on was freed by decisions earlier in the plan.
C26_PlanOrderFeasible ==
    pc = "done"
    => \A k \in 1..Len(decisions) :
          LET d == decisions[k]
              t == d.to_tier
          IN d.kind # "Stay"
             => /\ FreeAfterPrefix(t, k) >= 0
                /\ \A m \in tiers[t].max_usage_percent :
                      FreeAfterPrefix(t, k) <= tiers[t].total
                      => PercentOf(tiers[t].total - FreeAfterPrefix(t, k),
                                   tiers[t].total) <= m

(* ==================== claims: the fallback tier ======================== *)
\* the tiers slower than tier x that can accept a file of `size` bytes
AcceptingSlowerTiers(x, size) ==
    {t \in Tiers : /\ tiers[t].priority > tiers[x].priority
                   /\ EvictionPlanner_can_accept_file(tiers[t], size, tier_free_space[t])}

\* the first tier, in configuration order, that Pass 3b finds above its
\* max_usage_percent; 0 if there is none
FirstTierOverCeiling ==
    LET over == {t \in Tiers :
                   \E m \in tiers[t].max_usage_percent :
                      /\ tiers[t].total > 0
                      /\ PercentOf(saturating_sub(tiers[t].total, tier_free_space[t]),
                                   tiers[t].total) > m}
    IN IF over = {} THEN 0 ELSE Min(over)

\* C27: the fallback tier of an eviction candidate on tier X is the tier of
\* the smallest priority number among the slower tiers that can accept the
\* file, and the candidate is left where it is only if no slower tier can
\* accept it: the first candidate Pass 3b looks at on a tier above its
\* ceiling is demoted to such a tier whenever there is one.
C27_FallbackIsNearestAccepting ==
    [][(pc = "pass3b" /\ pc' = "sort" /\ FirstTierOverCeiling # 0)
       => LET x == FirstTierOverCeiling
              candidates == sort_eviction_candidates(
                                find_eviction_candidates(x, decisions), decisions)
          IN candidates # <<>>
             => LET c == Head(candidates)
                    accepting == AcceptingSlowerTiers(x, files[decisions[c].file].size)
                IN IF accepting = {}
                   THEN decisions'[c] = decisions[c]
                   ELSE /\ decisions'[c].kind = "Demote"
                        /\ decisions'[c].to_tier \in accepting
                        /\ \A t \in accepting :
                              tiers[decisions'[c].to_tier].priority <= tiers[t].priority]_vars

(* ================= claims: the eviction of excess usage ================ *)
\* the simulated usage of tier t is above its max_usage_percent m
OverCeiling(t, free, m) == (tiers[t].total - free) * 100 > m * tiers[t].total

\* a Stay decision on tier t that find_fallback_tier would still move
EvictableStays(t) ==
    {i \in 1..Len(decisions) :
        /\ decisions[i].kind = "Stay" /\ decisions[i].from_tier = t
        /\ find_fallback_tier(t, tier_free_space, files[decisions[i].file].size) # 0}

\* C28: when Pass 3b has returned, every tier with a max_usage_percent is at
\* or below it in the simulated usage, or none of the Stay decisions left on
\* it has a fallback tier that can accept the file; and Pass 3b evicts a
\* file only from a tier that is above its ceiling at that moment.
C28_ExcessEvictedWhilePossible ==
    /\ pc \in {"sort", "done"}
       => \A t \in Tiers : \A m \in tiers[t].max_usage_percent :
             OverCeiling(t, tier_free_space[t], m) => EvictableStays(t) = {}
    /\ \A i \in 1..Len(move_log) :
          LET e == move_log[i]
          IN e.pass = "excess"
             => \E m \in tiers[e.from_tier].max_usage_percent :
                   OverCeiling(e.from_tier, e.from_free_before, m)

(* ============ claims: the choice of the files to evict ================= *)
\* the files whose eviction this step applied
EvictedInStep ==
    {move_log'[i].file : i \in {j \in (Len(move_log) + 1)..Len(move_log') :
                                  move_log'[j].pass = "evict"}}

\* C29: for a tier T with blocked placements, Pass 3a picks among the Stay
\* decisions on T whose strategy priority is strictly below the highest
\* blocked priority, in ascending order of strategy priority (no file is
\* evicted unless every eligible candidate of lower priority was picked
\* before it), and stops as soon as the picked sizes add up to the blocked
\* sizes; it evicts picked files only.
C29_LowestPriorityPickedFirst ==
    [][(pc = "pass3a" /\ pc' # "panic")
       => \A T \in Tiers :
             (by_tier[T] # <<>> /\ by_tier'[T] = <<>>)
             => LET blocked_list == by_tier[T]
                    highest == Max({blocked_list[k].strategy_priority :
                                      k \in 1..Len(blocked_list)})
                    needed == calculate_needed_space(blocked_list)
                    eligible == {i \in 1..Len(decisions) :
                                   /\ decisions[i].kind = "Stay"
                                   /\ decisions[i].from_tier = T
                                   /\ decisions[i].priority < highest}
                    picked == select_files_to_evict(
                                  find_eviction_candidates(T, decisions),
                                  needed, blocked_list, decisions)
                    size(k) == files[decisions[picked[k]].file].size
                IN /\ \A k \in 1..Len(picked) : picked[k] \in eligible
                   /\ \A k \in 1..Len(picked) :
                         decisions[picked[k]].file \in EvictedInStep
                         => \A c \in eligible :
                               decisions[c].priority < decisions[picked[k]].priority
                               => \E j \in 1..(k - 1) : picked[j] = c
                   /\ picked # <<>>
                      => SumSeq([k \in 1..(Len(picked) - 1) |-> size(k)]) < needed
                   /\ SumSeq([k \in 1..Len(picked) |-> size(k)]) < needed
                      => \A c \in eligible : \E k \in 1..Len(picked) : picked[k] = c
                   /\ EvictedInStep
                         \subseteq {decisions[picked[k]].file : k \in 1..Len(picked)}]_vars

\* the blocked files this step placed on tier T
PlacedInStep(T) ==
    {move_log'[i].file : i \in {j \in (Len(move_log) + 1)..Len(move_log') :
                                  move_log'[j].pass = "replan" /\ move_log'[j].to_tier = T}}

\* C30: when Pass 3a demotes occupants of tier T and places blocked files
\* on T, each file placed has a strategy priority strictly greater than
\* that of each occupant evicted from T: no file gives way to a file of
\* equal or lower priority, also when placements of several priorities are
\* blocked on T.
C30_PlacedOutranksEvicted ==
    [][(pc = "pass3a" /\ pc' # "panic")
       => \A T \in Tiers :
             (by_tier[T] # <<>> /\ by_tier'[T] = <<>>)
             => \A k \in 1..Len(by_tier[T]) :
                   by_tier[T][k].file \in PlacedInStep(T)
                   => \A e \in EvictedInStep :
                         DecisionOf(e).priority < by_tier[T][k].strategy_priority]_vars


(* =============== claims: the source changed under the copy ============= *)
\* the source's size or mtime is no longer what it was when the copier exited
ChangedSinceStaging ==
    /\ staged_from # None /\ filesystem["src"] # None
    /\ \/ len(TheFile(filesystem["src"])) # len(TheFile(staged_from))
       \/ TheFile(filesystem["src"]).mtime # TheFile(staged_from).mtime

\* C31: when another process has changed the source's size or mtime after the
\* staging copy completed, the source-stability re-stat ends the call with an
\* error, the source keeps its new content, the staged copy is unlinked and
\* nothing is at the destination.
C31_ChangeAfterStagingAborts ==
    [][(mpc = "stability" /\ mpc' # "stability" /\ ChangedSinceStaging)
          => /\ result' \notin {"running", "Ok"}
             /\ filesystem'["src"] = filesystem["src"]
             /\ filesystem'[temp_destination] = None
             /\ filesystem'["dst"] = None]_vars


(* ================= claims: a source another process has open =========== *)
\* C32: a source that is open at the pre-flight makes the call fail with
\* ResourceBusy before anything is copied; the call goes on to the final hash
\* and the rename only when the source is not open at the re-check, and when
\* it is open there the call ends with an error, the staged copy unlinked and
\* the source in place.
C32_OpenSourceIsNotMoved ==
    [][/\ (mpc = "preflight" /\ mpc' # "preflight" /\ mover = "RsyncMover"
              /\ filesystem["src"] # None /\ src_open)
          => (result' = "ResourceBusy" /\ filesystem' = filesystem)
       /\ (mpc # "final_hash" /\ mpc' = "final_hash") => ~src_open
       /\ (mpc = "busy_recheck" /\ mpc' # "busy_recheck" /\ src_open)
          => /\ result' \notin {"running", "Ok"}
             /\ filesystem'[temp_destination] = None
             /\ filesystem'["src"] = filesystem["src"]]_vars


(* ================= claims: the backup of a differing destination ======= *)
\* calls of move_file on destinations with and without an extension
InitBackupNames ==
    /\ InitMoveWith(DestinationNames, {2}, {LockedRoot})
    /\ IdlePlan /\ IdleLock /\ IdleRun
SpecBackupNames == InitBackupNames /\ [][NextMoveAlone]_vars

\* C33: a destination that differs from the source is renamed to the sibling
\* <dst>.backup-<secs> before the call proceeds, and its content stays there,
\* neither overwritten nor deleted, however the call ends.
C33_DifferingDestinationBackedUp ==
    /\ backup_path # None
          => /\ backup_path = Some(backup_sibling(destination))
             /\ filesystem["backup"] = dst_before
    /\ dst_before # None
          => (filesystem["dst"] = dst_before \/ filesystem["backup"] = dst_before)


(* ================= claims: the sweep of empty directories ============== *)
\* calls of move_file on a source at every depth below its tier's root, every
\* ancestor with or without other entries
InitSweep ==
    /\ InitMoveWith({<<"episode", "mkv">>}, Ancestors,
                    [Ancestors -> {Dir(TRUE, others) : others \in BOOLEAN}])
    /\ IdlePlan /\ IdleLock /\ IdleRun
SpecSweep == InitSweep /\ [][NextMoveAlone]_vars

\* C34: the sweep stops at the tier root: the root of the source's tier and
\* the directories above it are never removed.
C34_TierRootNeverRemoved ==
    \A i \in Ancestors : i >= tier_root => ancestors[i].exists


(* ================= claims: all the tier locks or none ================== *)
\* process p is inside a call of try_lock_tiers
InTryLockTiers(p) == lpc[p] \notin {"idle", "holding", "drop_unlock", "drop_remove"}

\* process p holds the OS lock of some file
HoldsFlock(p) == \E i \in DOMAIN flock : flock[i] = Some(p)

NumScanTiers == 2
ScanTiers == 1..NumScanTiers

\* lock.rs: tier.path.join(".mergerfs-balancer.lock")
LockFileName == ".mergerfs-balancer.lock"
\* tier.rs: the name get_all_files leaves out
SkippedName == ".tierflow.lock"
EntryNames == {LockFileName, SkippedName, "episode.mkv", "movie.mkv"}

\* Tier::get_all_files: the regular files of the tree but the skipped name
get_all_files(entries) == {name \in entries : name # SkippedName}

\* a run about to lock its tiers, over any files left in them
InitScan ==
    /\ spc = "try_lock_tiers"
    /\ tier_entries \in [ScanTiers -> SUBSET EntryNames]
    /\ scanned = [t \in ScanTiers |-> {}]
    /\ decided = [t \in ScanTiers |-> {}]
    /\ dpc = "idle" /\ running = TRUE /\ run_number = 0 /\ handler = FALSE
    /\ failures = 0

\* try_lock_tiers: creates and locks the lock file of every tier; when the
\* file of tier busy_at is locked by another process, the files of the tiers
\* before it are removed again and the run ends
ScanTryLockTiers ==
    /\ spc = "try_lock_tiers"
    /\ \E busy_at \in {0} \cup ScanTiers :
          IF busy_at = 0
          THEN /\ tier_entries' = [t \in ScanTiers |-> tier_entries[t] \cup {LockFileName}]
               /\ spc' = "scan"
          ELSE /\ LockFileName \in tier_entries[busy_at]
               /\ tier_entries' = [t \in ScanTiers |->
                                      IF t < busy_at THEN tier_entries[t] \ {LockFileName}
                                      ELSE tier_entries[t]]
               /\ spc' = "done"
    /\ UNCHANGED <<scanned, decided, daemonVars>>
    /\ UNCHANGED <<planVars, moveVars, lockVars, runVars>>

\* plan_rebalance: tier.get_all_files() for every tier
ScanFiles ==
    /\ spc = "scan"
    /\ scanned' = [t \in ScanTiers |-> get_all_files(tier_entries[t])]
    /\ spc' = "plan"
    /\ UNCHANGED <<tier_entries, decided, daemonVars>>
    /\ UNCHANGED <<planVars, moveVars, lockVars, runVars>>

\* plan_rebalance: every scanned file gets its decision
DecideScanned ==
    /\ spc = "plan"
    /\ decided' = scanned
    /\ spc' = "drop"
    /\ UNCHANGED <<tier_entries, scanned, daemonVars>>
    /\ UNCHANGED <<planVars, moveVars, lockVars, runVars>>

\* Drop for TierLockGuard: the lock files are removed
DropScanGuard ==
    /\ spc = "drop"
    /\ tier_entries' = [t \in ScanTiers |-> tier_entries[t] \ {LockFileName}]
    /\ spc' = "done"
    /\ UNCHANGED <<scanned, decided, daemonVars>>
    /\ UNCHANGED <<planVars, moveVars, lockVars, runVars>>

NextScan == ScanTryLockTiers \/ ScanFiles \/ DecideScanned \/ DropScanGuard
InitScanCall == InitScan /\ IdlePlan /\ IdleMove /\ IdleLock /\ RunNotStarted
SpecScan == InitScanCall /\ [][NextScan]_vars

(* ================= claims: the lock file and the scan ================== *)
\* C36: the lock file try_lock_tiers creates in a tier is left out of the
\* scan of the tier, and no decision of the plan is about it.
C36_LockFileNotScanned ==
    \A t \in ScanTiers : LockFileName \notin scanned[t] /\ LockFileName \notin decided[t]


(* ============ claims: the simulated free space within the total ======== *)
\* RealDisk: a failed statvfs gives total 1 and free 0
FailedQueryTotal == 1
FailedQueryFree == 0

\* the fast tier's capacity query failed; the tier holds files all the same
FailedQueryTierConfigs ==
    { [ThreeTiers(None, None, None, 0, free2, 3) EXCEPT
          ![1] = Tier(1, max1, None, FailedQueryTotal, FailedQueryFree)] :
        max1 \in {None, Some(75)}, free2 \in 0..1 }

InitFailedQuery ==
    /\ InitPlanOver(FailedQueryTierConfigs, StrategyConfigs, MatchChoices, 2..3)
    /\ IdleMove /\ IdleLock /\ IdleRun
SpecFailedQuery == InitFailedQuery /\ [][Next]_vars

\* C37: planning never aborts: the simulated free space of a tier never
\* exceeds the tier's total space, so the subtraction of the admission test
\* never underflows, on a tier whose capacity query failed as on any other.
C37_FreeWithinTotal ==
    /\ pc # "panic"
    /\ \A t \in 1..Len(tiers) : tier_free_space[t] <= tiers[t].total


(* ============ claims: the warning of a required strategy =============== *)
\* the plan names file f in a RequiredStrategyFailed warning
Warned(f) == \E i \in 1..Len(warnings) : warnings[i].file = f

\* the tier on which the plan leaves file f is one its strategy prefers
PlacedOnPreferred(f) ==
    LET preferred == strategies[find_matching_strategy(f)].preferred_tiers
    IN \E k \in 1..Len(preferred) : preferred[k] = DecisionOf(f).to_tier

\* C38: the finished plan warns RequiredStrategyFailed for a file exactly
\* when the file's selected strategy is required and the plan does not place
\* the file on a tier that strategy prefers.
C38_WarnedIffRequiredUnplaced ==
    pc = "done" =>
       \A f \in 1..NumFiles :
          Warned(f) <=> /\ find_matching_strategy(f) # 0
                        /\ strategies[find_matching_strategy(f)].is_required
                        /\ ~PlacedOnPreferred(f)


(* ============ claims: demotions and the floor of the tier left ========= *)
\* decision d sends its file to a tier the file's own strategy prefers
ToOwnPreferredTier(d) ==
    /\ find_matching_strategy(d.file) # 0
    /\ LET preferred == strategies[find_matching_strategy(d.file)].preferred_tiers
       IN \E k \in 1..Len(preferred) : preferred[k] = d.to_tier

\* the decision of the plan for the file of move e is the Demote of that move
DemoteOfMove(e) ==
    \E i \in 1..Len(decisions) :
       /\ decisions[i].kind = "Demote" /\ decisions[i].file = e.file
       /\ decisions[i].from_tier = e.from_tier /\ decisions[i].to_tier = e.to_tier
       /\ ToOwnPreferredTier(decisions[i])

\* C39: every Demote that moves a file to a tier its own strategy prefers,
\* planned in Pass 2 or re-planned in Pass 3a, leaves a tier for which
\* can_demote() holds.
C39_DemoteOnlyFromDemotableTier ==
    \A k \in 1..Len(move_log) :
       (move_log[k].pass \in {"pass2", "replan"} /\ DemoteOfMove(move_log[k]))
          => can_demote(tiers[move_log[k].from_tier])


(* ========================= the daemon: run_daemon ====================== *)
\* Bound: the iterations of the daemon's loop
MaxRuns == 2

runCall == <<lock_guard, plan, next_decision, run_log, exec_result, file_at>>

InitDaemon ==
    /\ dpc = "set_handler" /\ running = TRUE /\ run_number = 1 /\ handler = FALSE
    /\ failures = 0
    /\ spc = "idle" /\ tier_entries = <<>> /\ scanned = <<>> /\ decided = <<>>
    /\ rpc = "idle" /\ lock_guard = "none" /\ plan = <<>>
    /\ next_decision = 0 /\ run_log = <<>> /\ exec_result = NoResult
    /\ dry_run \in BOOLEAN
    /\ tier_dirs = [t \in RunTiers |-> TRUE] /\ file_at = <<>>

\* ctrlc::set_handler; a failure is logged and the daemon goes on without it
SetHandler ==
    /\ dpc = "set_handler"
    /\ handler' \in BOOLEAN
    /\ dpc' = "loop_test"
    /\ UNCHANGED <<running, run_number, failures, scanVars, runVars>>
    /\ UNCHANGED <<planVars, moveVars, lockVars>>

\* while running.load(): the next call of run_rebalance, or the return
LoopTest ==
    /\ dpc = "loop_test"
    /\ IF running
       THEN /\ dpc' = "run_rebalance"
            /\ rpc' = "from_file" /\ lock_guard' = "none" /\ plan' = <<>>
            /\ next_decision' = 0 /\ run_log' = <<>> /\ exec_result' = NoResult
            /\ file_at' = <<>>
       ELSE dpc' = "stopped" /\ UNCHANGED <<rpc, runCall>>
    /\ UNCHANGED <<running, run_number, handler, failures, scanVars, dry_run, tier_dirs>>
    /\ UNCHANGED <<planVars, moveVars, lockVars>>

\* match run_rebalance(..): Ok is logged, Err is logged and the loop goes on
RunReturns ==
    /\ dpc = "run_rebalance"
    /\ rpc \in {"config_err", "return_ok", "return_err"} /\ lock_guard # "held"
    /\ failures' = IF rpc = "return_ok" THEN failures ELSE failures + 1
    /\ rpc' = "idle"
    /\ dpc' = "after_run"
    /\ UNCHANGED <<running, run_number, handler, scanVars, runCall, dry_run, tier_dirs>>
    /\ UNCHANGED <<planVars, moveVars, lockVars>>

\* the two error arms of try_lock_tiers in run_rebalance: process::exit(1)
ProcessExit ==
    /\ dpc = "run_rebalance" /\ rpc = "lock_err"
    /\ dpc' = "exited"
    /\ UNCHANGED <<running, run_number, handler, failures, scanVars, runVars>>
    /\ UNCHANGED <<planVars, moveVars, lockVars>>

\* if !running.load() { break; }
AfterRun ==
    /\ dpc = "after_run"
    /\ dpc' = IF running THEN "sleep" ELSE "stopped"
    /\ UNCHANGED <<running, run_number, handler, failures, scanVars, runVars>>
    /\ UNCHANGED <<planVars, moveVars, lockVars>>

\* the sleep in chunks of a second, left early when the flag is cleared;
\* run_number += 1
Sleep ==
    /\ dpc = "sleep" /\ run_number < MaxRuns
    /\ run_number' = run_number + 1
    /\ dpc' = "loop_test"
    /\ UNCHANGED <<running, handler, failures, scanVars, runVars>>
    /\ UNCHANGED <<planVars, moveVars, lockVars>>

\* SIGINT: the handler clears the flag; without a handler the signal ends
\* the process
Interrupt ==
    /\ dpc \notin {"idle", "stopped", "exited", "killed"} /\ running
    /\ IF handler
       THEN running' = FALSE /\ UNCHANGED <<dpc, rpc>>
       ELSE dpc' = "killed" /\ rpc' = "killed" /\ UNCHANGED running
    /\ UNCHANGED <<run_number, handler, failures, scanVars, runCall, dry_run, tier_dirs>>
    /\ UNCHANGED <<planVars, moveVars, lockVars>>

NextDaemon ==
    \/ SetHandler \/ LoopTest \/ RunReturns \/ ProcessExit \/ AfterRun \/ Sleep
    \/ Interrupt
    \/ LoadConfig \/ IntoTier \/ TryLockTiers \/ PlanRebalance \/ ExecuteDecision
    \/ MoveFileBetweenTiers \/ Output \/ DropLockGuard
InitDaemonCall == InitDaemon /\ IdlePlan /\ IdleMove /\ IdleLock
SpecDaemon == InitDaemonCall /\ [][NextDaemon]_vars

(* ========================= claims: the daemon ========================== *)
\* C40: a failed iteration, a busy lock and a failed configuration load
\* included, does not end the daemon's loop: the daemon stops only after the
\* interrupt flag has been set.
C40_StopsOnlyOnInterrupt ==
    dpc \in {"stopped", "exited"} => ~running

====
